---- MODULE Spec2Model ----
(***************************************************************************)
(* PsicoApp: patient and clinical-history screens over a hosted backend.   *)
(* Strings are sequences of one-character strings; a calendar date is a    *)
(* record [year, month, day] with month 0-based, as in the JS Date API.    *)
(***************************************************************************)
EXTENDS Integers, Sequences, FiniteSets, TLC

VARIABLES
    now,               \* the current local calendar day (new Date())
    arg,               \* input of the pure function under evaluation
    ret,               \* <<>> before it has run, then <<result>>
    screen,            \* the screen component this behaviour is about
    params,            \* useLocalSearchParams(): the route parameters
    mounted,           \* the screen is on the navigation stack
    focused,           \* the screen has navigation focus
    nOps,              \* focus effects, refreshes and accepted submits so far
    loading,           \* useState loading
    loadingData,       \* useState loadingData (forms)
    loadingHistorias,  \* useState loadingHistorias (detail)
    refreshing,        \* useState refreshing (list)
    error,             \* useState error: a message or Null
    paciente,          \* useState paciente: <<>> for null, <<row>> otherwise
    historias,         \* useState historias
    patients,          \* useState patients (list)
    filteredPatients,  \* useState filteredPatients (list)
    searchQuery,       \* useState searchQuery (list)
    effectPending,     \* the [searchQuery, patients] effect has yet to run
    form,              \* react-hook-form field values
    submitted,         \* formState.isSubmitted
    initialEstado,     \* useState initialEstado (history form)
    historia,          \* the row loadHistoriaData received: <<>> or <<row>>
    tasks,             \* async handlers suspended at an await, with the request
    openAlerts         \* Alert.alert dialogs on screen, oldest first

fnVars     == <<now, arg, ret>>
navVars    == <<screen, params, mounted, focused>>
flagVars   == <<loading, loadingData, loadingHistorias, refreshing, error>>
dataVars   == <<paciente, historias>>
listVars   == <<patients, filteredPatients, searchQuery, effectPending>>
formVars   == <<form, submitted, initialEstado, historia>>
vars ==
    <<fnVars, navVars, nOps, flagVars, dataVars, listVars, formVars, tasks,
      openAlerts>>

Null == "NULL"

(***************************** strings *************************************)

Digits == {"0", "1", "2", "3", "4", "5", "6", "7", "8", "9"}

DigitSeq == <<"0", "1", "2", "3", "4", "5", "6", "7", "8", "9">>

DigitVal(c) == CHOOSE n \in 0..9 : DigitSeq[n + 1] = c

DigitChar(n) == DigitSeq[n + 1]

AllDigits(s) == \A i \in 1..Len(s) : s[i] \in Digits

\* Number(s) for a string of decimal digits
RECURSIVE Number(_)
Number(s) ==
    IF Len(s) = 0 THEN 0
    ELSE 10 * Number(SubSeq(s, 1, Len(s) - 1)) + DigitVal(s[Len(s)])

\* String.prototype.split(sep) for a one-character separator
RECURSIVE Split(_, _)
Split(s, sep) ==
    IF \A i \in 1..Len(s) : s[i] # sep THEN <<s>>
    ELSE LET k == CHOOSE i \in 1..Len(s) :
                      s[i] = sep /\ \A j \in 1..(i - 1) : s[j] # sep
         IN  <<SubSeq(s, 1, k - 1)>> \o Split(SubSeq(s, k + 1, Len(s)), sep)

Pad2(n) == <<DigitChar((n \div 10) % 10), DigitChar(n % 10)>>

Pad4(n) ==
    <<DigitChar((n \div 1000) % 10), DigitChar((n \div 100) % 10),
      DigitChar((n \div 10) % 10), DigitChar(n % 10)>>

(***************************** JS Date *************************************)

EsBisiesto(y) == (y % 4 = 0 /\ y % 100 # 0) \/ y % 400 = 0

\* days of month m (0-based) of year y
DiasEnMes(y, m) ==
    IF m = 1 THEN (IF EsBisiesto(y) THEN 29 ELSE 28)
    ELSE IF m \in {3, 5, 8, 10} THEN 30 ELSE 31

\* new Date(anio, mesIdx, dia): years 0..99 mean 1900..1999, and a day past
\* the end of the month rolls over into the following month.
NewDate(anio, mesIdx, dia) ==
    LET y == IF anio \in 0..99 THEN 1900 + anio ELSE anio
        n == DiasEnMes(y, mesIdx)
    IN  IF dia <= n THEN [year |-> y, month |-> mesIdx, day |-> dia]
        ELSE IF mesIdx = 11 THEN [year |-> y + 1, month |-> 0, day |-> dia - n]
        ELSE [year |-> y, month |-> mesIdx + 1, day |-> dia - n]

\* date <= new Date(), for a date at local midnight and the current day d2
DateLeqNow(d1, d2) ==
    \/ d1.year < d2.year
    \/ d1.year = d2.year /\ d1.month < d2.month
    \/ d1.year = d2.year /\ d1.month = d2.month /\ d1.day <= d2.day

(************************ validarFechaFormato ******************************)

\* /^(0[1-9]|[12][0-9]|3[01])\/(0[1-9]|1[0-2])\/\d{4}$/
RegexFecha(s) ==
    /\ Len(s) = 10
    /\ \/ s[1] = "0" /\ s[2] \in Digits \ {"0"}
       \/ s[1] \in {"1", "2"} /\ s[2] \in Digits
       \/ s[1] = "3" /\ s[2] \in {"0", "1"}
    /\ s[3] = "/"
    /\ \/ s[4] = "0" /\ s[5] \in Digits \ {"0"}
       \/ s[4] = "1" /\ s[5] \in {"0", "1", "2"}
    /\ s[6] = "/"
    /\ \A i \in 7..10 : s[i] \in Digits

\* the same function without the "not in the future" conjunct
ValidarSinFuturo(fecha, hoy) ==
    /\ RegexFecha(fecha)
    /\ LET p    == Split(fecha, "/")
           dia  == Number(p[1])
           mes  == Number(p[2])
           anio == Number(p[3])
           date == NewDate(anio, mes - 1, dia)
       IN  /\ date.year = anio
           /\ date.month = mes - 1
           /\ date.day = dia

validarFechaFormato(fecha, hoy) ==
    /\ RegexFecha(fecha)
    /\ LET p    == Split(fecha, "/")
           dia  == Number(p[1])
           mes  == Number(p[2])
           anio == Number(p[3])
           date == NewDate(anio, mes - 1, dia)
       IN  /\ date.year = anio
           /\ date.month = mes - 1
           /\ date.day = dia
           /\ DateLeqNow(date, hoy)

(************************** the function harness ***************************)

\* February 29 of a leap year, and an ordinary day
Hoys ==
    {[year |-> 2024, month |-> 1, day |-> 29],
     [year |-> 2025, month |-> 5, day |-> 15]}

FechaYears == {0, 50, 99, 100, 1900, 2023, 2024, 2025, 2026}

MaxDia == 32

MaxMes == 13

Fecha(d, m, y) == Pad2(d) \o <<"/">> \o Pad2(m) \o <<"/">> \o Pad4(y)

\* a stored date, YYYY-MM-DD
FechaISO(d, m, y) == Pad4(y) \o <<"-">> \o Pad2(m) \o <<"-">> \o Pad2(d)

\* strings the pattern must refuse whatever their digits say
FechasMalFormadas ==
    {<<>>,
     <<"1", "/", "2", "/", "2", "0", "2", "0">>,
     <<"1", "5", "/", "0", "3", "/", "2", "0">>,
     <<"1", "5", "-", "0", "3", "-", "2", "0", "2", "0">>,
     <<"1", "5", "/", "0", "3", "/", "2", "0", "2", "0", "1">>,
     <<"x", "5", "/", "0", "3", "/", "2", "0", "2", "0">>,
     <<"1", "5", "/", "0", "3", "/", "2", "0", "2", "x">>,
     <<"2", "0", "2", "0", "-", "0", "3", "-", "1", "5">>,
     <<" ", "1", "/", "0", "3", "/", "2", "0", "2", "0">>}

FechaInputs ==
    {Fecha(d, m, y) : d \in 0..MaxDia, m \in 0..MaxMes, y \in FechaYears}
        \cup FechasMalFormadas

\* the state of every screen variable while no screen is mounted
NoScreen ==
    /\ screen = "none" /\ params = [id |-> Null, pacienteId |-> Null, historiaId |-> Null]
    /\ mounted = FALSE /\ focused = FALSE /\ nOps = 0
    /\ loading = FALSE /\ loadingData = FALSE /\ loadingHistorias = FALSE
    /\ refreshing = FALSE /\ error = Null
    /\ paciente = <<>> /\ historias = <<>>
    /\ patients = <<>> /\ filteredPatients = <<>> /\ searchQuery = <<>>
    /\ effectPending = FALSE
    /\ form = [none |-> TRUE] /\ submitted = FALSE /\ initialEstado = TRUE
    /\ historia = <<>>
    /\ tasks = {} /\ openAlerts = <<>>

screenVars ==
    <<navVars, nOps, flagVars, dataVars, listVars, formVars, tasks, openAlerts>>

InitFecha ==
    /\ now \in Hoys
    /\ arg \in FechaInputs
    /\ ret = <<>>
    /\ NoScreen

EvalValidarFecha ==
    /\ ret = <<>>
    /\ ret' = <<validarFechaFormato(arg, now)>>
    /\ UNCHANGED <<now, arg, screenVars>>

NextFecha == EvalValidarFecha

SpecFecha == InitFecha /\ [][NextFecha]_vars

(***************************** C1, C2 **************************************)

\* dd/mm/yyyy with two-digit day 01-31, two-digit month 01-12, four digits
FormatoDDMMYYYY(s) ==
    /\ Len(s) = 10
    /\ s[3] = "/" /\ s[6] = "/"
    /\ AllDigits(SubSeq(s, 1, 2)) /\ AllDigits(SubSeq(s, 4, 5))
    /\ AllDigits(SubSeq(s, 7, 10))
    /\ Number(SubSeq(s, 1, 2)) \in 1..31
    /\ Number(SubSeq(s, 4, 5)) \in 1..12

DiaDe(s) == Number(SubSeq(s, 1, 2))

MesDe(s) == Number(SubSeq(s, 4, 5))

AnioDe(s) == Number(SubSeq(s, 7, 10))

\* the day exists in that month of that year
DiaExiste(s) == DiaDe(s) <= DiasEnMes(AnioDe(s), MesDe(s) - 1)

\* the date is later than the current day
EsPosterior(s, hoy) ==
    \/ AnioDe(s) > hoy.year
    \/ AnioDe(s) = hoy.year /\ MesDe(s) - 1 > hoy.month
    \/ AnioDe(s) = hoy.year /\ MesDe(s) - 1 = hoy.month /\ DiaDe(s) > hoy.day

\* C1: every DD/MM/YYYY string that denotes a real calendar date (year 0001
\* onwards) not later than today, today included, is accepted.
C1_RealPastDateAccepted ==
    (/\ ret # <<>>
     /\ FormatoDDMMYYYY(arg)
     /\ AnioDe(arg) >= 1
     /\ DiaExiste(arg)
     /\ ~EsPosterior(arg, now)) => ret = <<TRUE>>

\* C2: a string that does not match the pattern, a matching string whose day
\* does not exist in its month and year, and a date later than today are
\* all refused.
C2_BadDateRefused ==
    (/\ ret # <<>>
     /\ \/ ~FormatoDDMMYYYY(arg)
        \/ ~DiaExiste(arg)
        \/ EsPosterior(arg, now)) => ret = <<FALSE>>

\* 29/02 of a non-leap year has been evaluated and refused
C2_Witness ==
    /\ ret = <<FALSE>>
    /\ FormatoDDMMYYYY(arg)
    /\ DiaDe(arg) = 29 /\ MesDe(arg) = 2 /\ AnioDe(arg) = 2023

(************************** screens: common ********************************)

MaxOps == 2

\* the current day while a screen is mounted
Hoy == [year |-> 2025, month |-> 5, day |-> 15]

\* route parameter values: absent, the two placeholder literals, the id of
\* a stored row, an id no row has
RouteIds == {Null, "undefined", "null", "id-1", "id-2"}

\* !id
Falsy(id) == id = Null \/ id = ""

\* !id || id === 'undefined' || id === 'null'
IdNoValido(id) == Falsy(id) \/ id = "undefined" \/ id = "null"

NoData == [none |-> TRUE]

\* an async handler `op` of operation number `n`, suspended at `await at(a)`;
\* `d` is the handler's own `data` parameter
Task(n, op, at, a, d) ==
    [id |-> n, op |-> op, at |-> at, arg |-> a, body |-> NoData, data |-> d,
     reply |-> "pending", rows |-> <<>>, inst |-> FALSE]

\* the same for a request that sends the row `b`
TaskBody(n, op, at, b, d) == [Task(n, op, at, Null, d) EXCEPT !.body = b]

Pending(t) == t.reply = "pending"

\* an alert whose button always navigates back
AlertConBack(msg, back) == [msg |-> msg, back |-> TRUE]

\* an alert whose button never navigates
AlertSinBack(msg, back) == [msg |-> msg, back |-> FALSE]

\* Alert.alert(title, message, [{text: 'OK', onPress}])
Alert(msg, back) == [msg |-> msg, back |-> back]

\* error instanceof Error ? error.message : fallback
ErrorMessage(t, fallback) == IF t.inst THEN "backend message" ELSE fallback

PacienteRows ==
    {[id_paciente |-> "id-1",
      dni |-> <<"1", "2", "3", "4", "5", "6", "7", "8">>,
      nombre |-> <<"A", "n", "a">>,
      apellido |-> <<"P", "a", "z">>,
      fecha_nacimiento |-> <<"1", "9", "9", "0", "-", "0", "3", "-", "1", "5">>,
      sexo |-> "F",
      telefono |-> <<"9", "8", "7", "6", "5", "4", "3", "2", "1">>,
      correo |-> <<Null>>,
      id_usuario |-> "u1"]}

Hist(diag, trat, est) ==
    [id_historia |-> "id-1", diagnostico |-> diag, tratamiento |-> trat,
     observaciones |-> <<Null>>, estado |-> est]

HistoriaRows ==
    {Hist(<<"a", "n", "s", "i", "a">>, <<Null>>, TRUE),
     Hist(<<"f", "o", "b", "i", "a">>, <<"t", "c", "c">>, FALSE)}

HistoriaLists ==
    {<<>>} \cup {<<h>> : h \in HistoriaRows}

PacienteLists ==
    {<<>>} \cup {<<r>> : r \in PacienteRows}

(************************** the data-access functions **********************)

\* the absence of an error: { error: null }
SinError == [origin |-> "none", message |-> <<>>, inst |-> FALSE]

\* an error object the backend client hands back; whether it is an instance
\* of Error depends on the client library
BackendError(m, i) == [origin |-> "backend", message |-> <<m>>, inst |-> i]

\* the request failed
Fallos == {BackendError(m, i) : m \in {"fetch failed", "permission denied"},
                                i \in BOOLEAN}

\* .single() found no row
SinFilas == {BackendError("PGRST116", i) : i \in BOOLEAN}

\* new Error(message)
NewError(msg) == [origin |-> "new", message |-> msg, inst |-> TRUE]

\* the rows the tables hold have this identifier
Existe(id) == id = "id-1"

\* { data, error } as the backend client resolves it
Ok(rows) == [nulo |-> FALSE, data |-> rows, error |-> SinError]

Err(e) == [nulo |-> TRUE, data |-> <<>>, error |-> e]

Vacio == [nulo |-> TRUE, data |-> <<>>, error |-> SinError]

\* select / insert / update ... .single() on the row with identifier id
RespSingle(rows, id) ==
    IF Existe(id)
    THEN {Ok(<<r>>) : r \in rows} \cup {Err(e) : e \in Fallos}
    ELSE {Err(e) : e \in SinFilas \cup Fallos}

\* insert(...).select().single()
RespInsertSingle(rows) == {Ok(<<r>>) : r \in rows} \cup {Err(e) : e \in Fallos}

\* a query that resolves to a list of rows
RespLista(lists) == {Ok(l) : l \in lists} \cup {Err(e) : e \in Fallos}

\* update / delete without select: no data
RespSinSelect == {Vacio} \cup {Err(e) : e \in Fallos}

\* what a call of a data-access function ends in: `causa` is the error the
\* backend returned, if the call ends because of one
Throw(e, causa) ==
    [kind |-> "throw", err |-> e, nulo |-> TRUE, data |-> <<>>, causa |-> causa]

Return(nulo, data) ==
    [kind |-> "return", err |-> SinError, nulo |-> nulo, data |-> data,
     causa |-> SinError]

_getHistoriasByPaciente(r) ==
    IF r.error # SinError THEN Throw(r.error, r.error)
    ELSE Return(FALSE, IF r.nulo THEN <<>> ELSE r.data)

_getHistoriaById(r) ==
    IF r.error # SinError THEN Throw(r.error, r.error)
    ELSE Return(r.nulo, r.data)

_createHistoria(r) ==
    IF r.error # SinError THEN Throw(r.error, r.error)
    ELSE Return(r.nulo, r.data)

_updateHistoria(r) ==
    IF r.error # SinError THEN Throw(r.error, r.error)
    ELSE Return(r.nulo, r.data)

_deleteHistoria(r) ==
    IF r.error # SinError THEN Throw(r.error, r.error)
    ELSE Return(TRUE, <<>>)

\* the _updateHistoria of three round trips: check, update, fetch
_updateHistoriaPasos(id, r1, r2, r3) ==
    IF r1.error # SinError
    THEN Throw(NewError(<<"No se pudo verificar la historia: ">> \o r1.error.message),
               r1.error)
    ELSE IF r1.nulo
    THEN Throw(NewError(<<"Historia clinica no encontrada con ID: ", id>>), SinError)
    ELSE IF r2.error # SinError
    THEN Throw(NewError(<<"Error al actualizar: ">> \o r2.error.message), r2.error)
    ELSE IF r3.error # SinError
    THEN Throw(NewError(<<"Error al obtener datos actualizados: ">>
                            \o r3.error.message), r3.error)
    ELSE IF r3.nulo
    THEN Throw(NewError(<<"No se pudo obtener la historia clinica actualizada">>),
               SinError)
    ELSE Return(FALSE, r3.data)

\* without data and without error the function returns undefined
_createPaciente(r) ==
    IF r.error # SinError THEN Throw(r.error, r.error)
    ELSE Return(r.nulo, r.data)

\* a _getPaciente that resolves to null when no row matches
_getPacienteNulo(r) ==
    IF r.error \in SinFilas THEN Return(TRUE, <<>>)
    ELSE IF r.error # SinError THEN Throw(r.error, r.error)
    ELSE Return(r.nulo, r.data)

_getPaciente(r) ==
    IF r.error # SinError THEN Throw(r.error, r.error)
    ELSE Return(r.nulo, r.data)

_getAllPacientes(r) ==
    IF r.error # SinError THEN Throw(NewError(r.error.message), r.error)
    ELSE Return(FALSE, IF r.nulo THEN <<>> ELSE r.data)

_updatePaciente(r) ==
    IF r.error # SinError THEN Throw(r.error, r.error)
    ELSE Return(r.nulo, r.data)

_deletePaciente(r) ==
    IF r.error # SinError THEN Throw(r.error, r.error)
    ELSE Return(TRUE, <<>>)

\* the rows an update of the row with identifier id matches
Matched(rows, id) == IF Existe(id) THEN {<<r>> : r \in rows} ELSE {<<>>}

\* every way a call fn(id) can end, over what the backend can answer
Resultados(fn, id) ==
    CASE fn = "_getHistoriasByPaciente" ->
           {_getHistoriasByPaciente(r) :
                r \in RespLista(IF Existe(id) THEN HistoriaLists ELSE {<<>>})}
      [] fn = "_getHistoriaById" ->
           {_getHistoriaById(r) : r \in RespSingle(HistoriaRows, id)}
      [] fn = "_createHistoria" ->
           {_createHistoria(r) : r \in RespInsertSingle(HistoriaRows)}
      [] fn = "_updateHistoria" ->
           {_updateHistoria(r) : r \in RespSingle(HistoriaRows, id)}
      [] fn = "_updateHistoriaPasos" ->
           {_updateHistoriaPasos(id, r1, r2, r3) :
                r1 \in RespSingle(HistoriaRows, id), r2 \in RespSinSelect,
                r3 \in RespSingle(HistoriaRows, id)}
      [] fn = "_deleteHistoria" ->
           {_deleteHistoria(r) : r \in RespSinSelect}
      [] fn = "_createPaciente" ->
           {_createPaciente(r) : r \in RespLista({<<p>> : p \in PacienteRows})}
      [] fn = "_getPaciente" ->
           {_getPaciente(r) : r \in RespSingle(PacienteRows, id)}
      [] fn = "_getAllPacientes" ->
           {_getAllPacientes(r) : r \in RespLista(PacienteLists)}
      [] fn = "_updatePaciente" ->
           {_updatePaciente(r) : r \in RespLista(Matched(PacienteRows, id))}
      [] fn = "_deletePaciente" ->
           {_deletePaciente(r) : r \in RespSinSelect}

\* one call of a data-access function, from the call to its end
Servicios ==
    {"_getHistoriasByPaciente", "_getHistoriaById", "_createHistoria",
     "_updateHistoria", "_updateHistoriaPasos", "_deleteHistoria",
     "_createPaciente", "_getPaciente", "_getAllPacientes", "_updatePaciente",
     "_deletePaciente"}

ServiceIds == {"id-1", "id-2"}

InitServicios ==
    /\ now = Hoy
    /\ arg \in {<<[fn |-> f, id |-> i]>> : f \in Servicios, i \in ServiceIds}
    /\ ret = <<>>
    /\ NoScreen

EvalServicio ==
    /\ ret = <<>>
    /\ \E o \in Resultados(arg[1].fn, arg[1].id) : ret' = <<o>>
    /\ UNCHANGED <<now, arg, screenVars>>

NextServicios == EvalServicio

SpecServicios == InitServicios /\ [][NextServicios]_vars

\* _updateHistoria against a stored row that other sessions can change
\* between its requests. arg[1] holds the variant (pasos: the one of three
\* requests), the request that comes next, the stored row (<<>> when there
\* is none), the values to write, whether this call has written them, and
\* whether another session has acted.
Cambios ==
    {[diagnostico |-> <<"n", "u", "e", "v", "o">>, estado |-> e] : e \in BOOLEAN}

\* the stored row after update(updateData)
Aplicar(stored, c) ==
    IF stored = <<>> THEN stored
    ELSE <<[stored[1] EXCEPT !.diagnostico = c.diagnostico, !.estado = c.estado]>>

\* select('*').eq(...).single() on the stored row, when the request gets through
Leer(stored) == IF stored = <<>> THEN {Err(e) : e \in SinFilas} ELSE {Ok(stored)}

InitUpdate ==
    /\ now = Hoy
    /\ arg \in {<<[pasos |-> p, paso |-> 1, stored |-> st, cambio |-> c,
                    tocada |-> FALSE, ajena |-> FALSE, r1 |-> Vacio]>> :
                    p \in BOOLEAN, st \in HistoriaLists, c \in Cambios}
    /\ ret = <<>>
    /\ NoScreen

\* the single request update(...).eq(...).select().single()
UpdateUnico ==
    /\ ret = <<>> /\ ~arg[1].pasos
    /\ \/ \E e \in Fallos : ret' = <<_updateHistoria(Err(e))>> /\ arg' = arg
       \/ /\ arg' = <<[arg[1] EXCEPT !.stored = Aplicar(@, arg[1].cambio),
                                      !.tocada = arg[1].stored # <<>>]>>
          /\ \E r \in Leer(arg'[1].stored) : ret' = <<_updateHistoria(r)>>
    /\ UNCHANGED <<now, screenVars>>

\* PASO 1: the row is read
UpdateVerificar ==
    /\ ret = <<>> /\ arg[1].pasos /\ arg[1].paso = 1
    /\ \E r \in Leer(arg[1].stored) \cup {Err(e) : e \in Fallos} :
           IF r.error # SinError
           THEN /\ ret' = <<_updateHistoriaPasos("id-1", r, Vacio, Vacio)>>
                /\ arg' = arg
           ELSE /\ arg' = <<[arg[1] EXCEPT !.paso = 2, !.r1 = r]>>
                /\ ret' = ret
    /\ UNCHANGED <<now, screenVars>>

\* PASO 2: update(updateData).eq(...), without select
UpdateActualizar ==
    /\ ret = <<>> /\ arg[1].pasos /\ arg[1].paso = 2
    /\ \/ \E e \in Fallos :
             /\ ret' = <<_updateHistoriaPasos("id-1", arg[1].r1, Err(e), Vacio)>>
             /\ arg' = arg
       \/ /\ arg' = <<[arg[1] EXCEPT !.paso = 3,
                                      !.stored = Aplicar(@, arg[1].cambio),
                                      !.tocada = arg[1].stored # <<>>]>>
          /\ ret' = ret
    /\ UNCHANGED <<now, screenVars>>

\* PASO 3: the row is read again
UpdateReleer ==
    /\ ret = <<>> /\ arg[1].pasos /\ arg[1].paso = 3
    /\ \E r \in Leer(arg[1].stored) \cup {Err(e) : e \in Fallos} :
           ret' = <<_updateHistoriaPasos("id-1", arg[1].r1, Vacio, r)>>
    /\ arg' = arg
    /\ UNCHANGED <<now, screenVars>>

\* between two requests another session deletes the row or rewrites it
OtraSesion ==
    /\ ret = <<>> /\ arg[1].pasos /\ arg[1].paso > 1 /\ ~arg[1].ajena
    /\ arg[1].stored # <<>>
    /\ \E st \in {<<>>, <<[arg[1].stored[1] EXCEPT !.diagnostico = <<"o", "t", "r", "o">>]>>} :
           arg' = <<[arg[1] EXCEPT !.stored = st, !.ajena = TRUE]>>
    /\ UNCHANGED <<now, ret, screenVars>>

NextUpdate ==
    UpdateUnico \/ UpdateVerificar \/ UpdateActualizar \/ UpdateReleer \/ OtraSesion

SpecUpdate == InitUpdate /\ [][NextUpdate]_vars

\* what a screen sees of the end of a call: resolved or rejected, the rows,
\* and whether the thrown value is an instance of Error
Visto(o) ==
    [reply |-> IF o.kind = "throw" THEN "error" ELSE "ok",
     rows |-> o.data, inst |-> o.err.inst]

\* the same for a call whose result the screen does not read
VistoSinFilas(o) == [Visto(o) EXCEPT !.rows = <<>>]

\* what the backend can answer to the request of task t
Replies(t) ==
    CASE t.at \in {"_getPaciente", "_getHistoriasByPaciente", "_getAllPacientes",
                   "_getHistoriaById"} ->
           {Visto(o) : o \in Resultados(t.at, t.arg)}
      [] t.at = "getUser" ->
           {[reply |-> "ok", rows |-> <<[id |-> "u1"]>>, inst |-> FALSE],
            [reply |-> "ok", rows |-> <<>>, inst |-> FALSE]}
      [] t.at = "_updatePaciente" ->
           {VistoSinFilas(o) : o \in Resultados(t.at, t.body.id_paciente)}
      [] t.at = "_updateHistoria" ->
           {VistoSinFilas(o) :
                o \in Resultados("_updateHistoria", t.body.id_historia)
                      \cup Resultados("_updateHistoriaPasos", t.body.id_historia)}
      [] OTHER ->
           {VistoSinFilas(o) : o \in Resultados(t.at, Null)}

\* the backend answers a request; the handler has yet to resume
Reply ==
    \E t \in tasks : \E r \in Replies(t) :
        /\ Pending(t)
        /\ tasks' = (tasks \ {t}) \cup
                     {[t EXCEPT !.reply = r.reply, !.rows = r.rows, !.inst = r.inst]}
        /\ UNCHANGED <<fnVars, navVars, nOps, flagVars, dataVars, listVars,
                       formVars, openAlerts>>

\* the user presses OK on the alert in front; onPress may call router.back(),
\* which pops this screen when it is the one in front (otherwise it pops
\* the screen that covers it, and this one is about to regain focus)
PressAlertOK ==
    /\ openAlerts # <<>>
    /\ openAlerts' = Tail(openAlerts)
    /\ IF Head(openAlerts).back /\ focused
       THEN mounted' = FALSE /\ focused' = FALSE
       ELSE UNCHANGED <<mounted, focused>>
    /\ UNCHANGED <<fnVars, screen, params, nOps, flagVars, dataVars, listVars,
                   formVars, tasks>>

\* the screen's own back button, or the hardware back button
GoBack ==
    /\ mounted /\ focused /\ openAlerts = <<>>
    /\ ~effectPending
    /\ mounted' = FALSE /\ focused' = FALSE
    /\ UNCHANGED <<fnVars, screen, params, nOps, flagVars, dataVars, listVars,
                   formVars, tasks, openAlerts>>

\* another screen is pushed on top of this one
Blur ==
    /\ screen \in {"PacienteDetail", "ListaPacientes"}
    /\ mounted /\ focused /\ openAlerts = <<>>
    /\ ~effectPending
    /\ focused' = FALSE
    /\ UNCHANGED <<fnVars, screen, params, mounted, nOps, flagVars, dataVars,
                   listVars, formVars, tasks, openAlerts>>

(************************** PacienteDetail *********************************)

InitDetail ==
    /\ now = Hoy /\ arg = <<>> /\ ret = <<>>
    /\ screen = "PacienteDetail"
    /\ params \in {[id |-> i, pacienteId |-> Null, historiaId |-> Null] : i \in RouteIds}
    /\ mounted = TRUE /\ focused = FALSE /\ nOps = 0
    /\ loading = TRUE /\ loadingData = FALSE /\ loadingHistorias = FALSE
    /\ refreshing = FALSE /\ error = Null
    /\ paciente = <<>> /\ historias = <<>>
    /\ patients = <<>> /\ filteredPatients = <<>> /\ searchQuery = <<>>
    /\ effectPending = FALSE
    /\ form = NoData /\ submitted = FALSE /\ initialEstado = TRUE
    /\ historia = <<>>
    /\ tasks = {} /\ openAlerts = <<>>

\* a fetchData that asks for the patient and the histories at once
DetailFetchDataParalelo(n) ==
    IF IdNoValido(params.id)
    THEN /\ error' = "ID de paciente no valido"
         /\ loading' = FALSE
         /\ UNCHANGED tasks
    ELSE /\ loading' = TRUE
         /\ error' = Null
         /\ tasks' = tasks \cup
                {Task(n, "fetchData", "_getPaciente", params.id, NoData),
                 Task(n, "fetchData", "_getHistoriasByPaciente", params.id, NoData)}

\* fetchData up to its first await; n is the number of this operation
DetailFetchData(n) ==
    IF IdNoValido(params.id)
    THEN /\ error' = "ID de paciente no valido"
         /\ loading' = FALSE
         /\ UNCHANGED tasks
    ELSE /\ loading' = TRUE
         /\ error' = Null
         /\ tasks' = tasks \cup {Task(n, "fetchData", "_getPaciente", params.id, NoData)}

\* the useFocusEffect callback
DetailFocus ==
    /\ screen = "PacienteDetail"
    /\ mounted /\ ~focused /\ nOps < MaxOps
    /\ openAlerts = <<>>
    /\ focused' = TRUE
    /\ nOps' = nOps + 1
    /\ IF IdNoValido(params.id)
       THEN /\ openAlerts' = Append(openAlerts, Alert("ID de paciente no valido", TRUE))
            /\ UNCHANGED <<loading, error, tasks>>
       ELSE /\ DetailFetchData(nOps + 1)
            /\ UNCHANGED openAlerts
    /\ UNCHANGED <<fnVars, screen, params, mounted, loadingData, loadingHistorias,
                   refreshing, dataVars, listVars, formVars>>

\* fetchData resumes after await _getPaciente(id): the rest of the try block
\* up to the await inside loadHistorias, or the catch and finally blocks
DetailAfterGetPaciente ==
    \E t \in tasks :
        /\ t.op = "fetchData" /\ t.at = "_getPaciente" /\ ~Pending(t)
        /\ IF t.reply = "ok" /\ t.rows # <<>>
           THEN /\ paciente' = t.rows
                /\ IF IdNoValido(t.arg)
                   THEN /\ tasks' = tasks \ {t}
                        /\ loading' = FALSE
                        /\ UNCHANGED loadingHistorias
                   ELSE /\ loadingHistorias' = TRUE
                        /\ tasks' = (tasks \ {t}) \cup
                               {Task(t.id, "fetchData", "_getHistoriasByPaciente",
                                     t.arg, NoData)}
                        /\ UNCHANGED loading
                /\ UNCHANGED <<error, openAlerts>>
           ELSE /\ error' = IF t.reply = "error"
                             THEN ErrorMessage(t, "Error al cargar datos")
                             ELSE "Paciente no encontrado"
                /\ openAlerts' = Append(openAlerts,
                       Alert("No se pudo cargar la informacion del paciente.", TRUE))
                /\ loading' = FALSE
                /\ tasks' = tasks \ {t}
                /\ UNCHANGED <<paciente, loadingHistorias>>
        /\ UNCHANGED <<fnVars, navVars, nOps, loadingData, refreshing, historias,
                       listVars, formVars>>

\* loadHistorias resumes after await _getHistoriasByPaciente(pacienteId), then
\* fetchData runs its finally block
DetailAfterGetHistorias ==
    \E t \in tasks :
        /\ t.op = "fetchData" /\ t.at = "_getHistoriasByPaciente" /\ ~Pending(t)
        /\ historias' = IF t.reply = "ok" THEN t.rows ELSE <<>>
        /\ loadingHistorias' = FALSE
        /\ loading' = FALSE
        /\ tasks' = tasks \ {t}
        /\ UNCHANGED <<fnVars, navVars, nOps, loadingData, refreshing, error,
                       paciente, listVars, formVars, openAlerts>>

(************************** ListaPacientes *********************************)

Blancos == {" ", "\t", "\n"}

\* String.prototype.trim
RECURSIVE Trim(_)
Trim(s) ==
    IF s = <<>> THEN s
    ELSE IF Head(s) \in Blancos THEN Trim(Tail(s))
    ELSE IF s[Len(s)] \in Blancos THEN Trim(SubSeq(s, 1, Len(s) - 1))
    ELSE s

Mayusculas ==
    <<"A", "B", "C", "D", "E", "F", "G", "H", "I", "J", "K", "L", "M",
      "N", "O", "P", "Q", "R", "S", "T", "U", "V", "W", "X", "Y", "Z">>

Minusculas ==
    <<"a", "b", "c", "d", "e", "f", "g", "h", "i", "j", "k", "l", "m",
      "n", "o", "p", "q", "r", "s", "t", "u", "v", "w", "x", "y", "z">>

\* String.prototype.toLowerCase
ToLowerCase(s) ==
    [i \in 1..Len(s) |->
        IF \E k \in 1..Len(Mayusculas) : Mayusculas[k] = s[i]
        THEN Minusculas[CHOOSE k \in 1..Len(Mayusculas) : Mayusculas[k] = s[i]]
        ELSE s[i]]

\* a test for a prefix only
StartsWith(s, q) == Len(q) <= Len(s) /\ SubSeq(s, 1, Len(q)) = q

\* String.prototype.includes
Includes(s, q) ==
    \E i \in 0..(Len(s) - Len(q)) : SubSeq(s, i + 1, i + Len(q)) = q

\* a filterPatients that keeps every patient
filterPatientsTodos(ps, q) == ps

\* the list filterPatients hands to setFilteredPatients
filterPatients(ps, q) ==
    IF Trim(q) = <<>> THEN ps
    ELSE SelectSeq(ps, LAMBDA pt :
             Includes(ToLowerCase(pt.nombre \o <<" ">> \o pt.apellido \o <<" ">> \o pt.dni),
                      ToLowerCase(q)))

\* the filterPatients of the older list screen: name and surname only
filterPatientsSinDni(ps, q) ==
    IF Trim(q) = <<>> THEN ps
    ELSE SelectSeq(ps, LAMBDA pt :
             Includes(ToLowerCase(pt.nombre \o <<" ">> \o pt.apellido),
                      ToLowerCase(q)))

SearchQueries == {<<>>, <<"a", "n", "a">>, <<"X">>}

\* filterPatients on its own: a list, a query, the filtered list
Persona(n, a, d) == [nombre |-> n, apellido |-> a, dni |-> d]

Personas ==
    {Persona(<<"A", "n", "a">>, <<"L", "o", "p", "e", "z">>,
             <<"1", "2", "3", "4", "5", "6", "7", "8">>),
     Persona(<<"L", "u", "i", "s">>, <<"R", "a", "m", "o", "s">>,
             <<"8", "7", "6", "5", "4", "3", "2", "1">>),
     Persona(<<"a", "n">>, <<"A", "L", "O">>,
             <<"1", "1", "1", "1", "1", "1", "1", "1">>)}

MaxPersonas == 2

ListasDePersonas ==
    UNION {{l \in [1..n -> Personas] : \A i, j \in 1..n : i # j => l[i] # l[j]} :
               n \in 0..MaxPersonas}

Consultas ==
    {<<>>, <<" ">>, <<" ", "\t">>, <<"a", "n", "a">>, <<"A", "N", "A">>,
     <<"a", "n", "a", " ", "l">>, <<"a", "n", "a", "l">>, <<"z", " ", "1">>,
     <<"z", "1">>, <<"8", "7", "6">>, <<" ", "a", "n">>, <<"x">>}

InitFiltro ==
    /\ now = Hoy
    /\ arg \in {<<[conDni |-> b, patients |-> l, searchQuery |-> q]>> :
                    b \in BOOLEAN, l \in ListasDePersonas, q \in Consultas}
    /\ ret = <<>>
    /\ NoScreen

EvalFiltro ==
    /\ ret = <<>>
    /\ ret' = <<IF arg[1].conDni
                THEN filterPatients(arg[1].patients, arg[1].searchQuery)
                ELSE filterPatientsSinDni(arg[1].patients, arg[1].searchQuery)>>
    /\ UNCHANGED <<now, arg, screenVars>>

NextFiltro == EvalFiltro

SpecFiltro == InitFiltro /\ [][NextFiltro]_vars

InitLista ==
    /\ now = Hoy /\ arg = <<>> /\ ret = <<>>
    /\ screen = "ListaPacientes"
    /\ params = [id |-> Null, pacienteId |-> Null, historiaId |-> Null]
    /\ mounted = TRUE /\ focused = FALSE /\ nOps = 0
    /\ loading = TRUE /\ loadingData = FALSE /\ loadingHistorias = FALSE
    /\ refreshing = FALSE /\ error = Null
    /\ paciente = <<>> /\ historias = <<>>
    /\ patients = <<>> /\ filteredPatients = <<>> /\ searchQuery = <<>>
    /\ effectPending = TRUE
    /\ form = NoData /\ submitted = FALSE /\ initialEstado = TRUE
    /\ historia = <<>>
    /\ tasks = {} /\ openAlerts = <<>>

\* a fetchPatients that leaves loading as it is
ListaFetchPatientsSinLoading(n, op) ==
    /\ loading' = loading
    /\ error' = Null
    /\ tasks' = tasks \cup {Task(n, op, "_getAllPacientes", Null, NoData)}

\* fetchPatients up to its await, called by handler `op`
ListaFetchPatients(n, op) ==
    /\ loading' = TRUE
    /\ error' = Null
    /\ tasks' = tasks \cup {Task(n, op, "_getAllPacientes", Null, NoData)}

\* the useFocusEffect callback
ListaFocus ==
    /\ screen = "ListaPacientes"
    /\ mounted /\ ~focused /\ nOps < MaxOps
    /\ openAlerts = <<>>
    /\ focused' = TRUE
    /\ nOps' = nOps + 1
    /\ ListaFetchPatients(nOps + 1, "fetchPatients")
    /\ UNCHANGED <<fnVars, screen, params, mounted, loadingData, loadingHistorias,
                   refreshing, dataVars, listVars, formVars, openAlerts>>

\* the list with its RefreshControl and the search bar are on screen
ListaVisible ==
    /\ screen = "ListaPacientes"
    /\ mounted /\ focused /\ openAlerts = <<>> /\ ~effectPending
    /\ ~loading

\* onRefresh up to the await inside fetchPatients
ListaOnRefresh ==
    /\ ListaVisible
    /\ filteredPatients # <<>>
    /\ nOps < MaxOps
    /\ nOps' = nOps + 1
    /\ refreshing' = TRUE
    /\ ListaFetchPatients(nOps + 1, "onRefresh")
    /\ UNCHANGED <<fnVars, navVars, loadingData, loadingHistorias, dataVars,
                   listVars, formVars, openAlerts>>

\* fetchPatients resumes after await _getAllPacientes(); onRefresh, when it
\* is the caller, then runs setRefreshing(false)
ListaAfterGetAll ==
    \E t \in tasks :
        /\ t.at = "_getAllPacientes" /\ ~Pending(t)
        /\ IF t.reply = "ok"
           THEN /\ patients' = t.rows
                /\ filteredPatients' = t.rows
                /\ effectPending' = TRUE
                /\ UNCHANGED <<error, openAlerts>>
           ELSE /\ error' = ErrorMessage(t, "Error al cargar pacientes")
                /\ openAlerts' = Append(openAlerts,
                       Alert("No se pudieron cargar los pacientes.", FALSE))
                /\ UNCHANGED <<patients, filteredPatients, effectPending>>
        /\ loading' = FALSE
        /\ refreshing' = IF t.op = "onRefresh" THEN FALSE ELSE refreshing
        /\ tasks' = tasks \ {t}
        /\ UNCHANGED <<fnVars, navVars, nOps, loadingData, loadingHistorias,
                       dataVars, searchQuery, formVars>>

\* onChangeText={setSearchQuery}, and the clear button
ListaSetSearchQuery ==
    \E q \in SearchQueries :
        /\ ListaVisible
        /\ q # searchQuery
        /\ searchQuery' = q
        /\ effectPending' = TRUE
        /\ UNCHANGED <<fnVars, navVars, nOps, flagVars, dataVars, patients,
                       filteredPatients, formVars, tasks, openAlerts>>

\* useEffect(() => filterPatients(), [searchQuery, patients])
ListaFilterEffect ==
    /\ screen = "ListaPacientes"
    /\ effectPending
    /\ filteredPatients' = filterPatients(patients, searchQuery)
    /\ effectPending' = FALSE
    /\ UNCHANGED <<fnVars, navVars, nOps, flagVars, dataVars, patients,
                   searchQuery, formVars, tasks, openAlerts>>

(************************** PacienteFormScreen *****************************)

DniLen == 8

NombreMin == 2

NombreMax == 50

TelefonoLen == 9

Sexos == {"M", "F", "Otro"}

Letras == {Mayusculas[i] : i \in 1..Len(Mayusculas)} \cup
          {Minusculas[i] : i \in 1..Len(Minusculas)}

\* z.string().email(): one "@", a non-empty local part of letters, digits
\* and _ ' + - . that neither starts with a dot nor ends with one, and a
\* domain of dot-separated labels ending in at least two letters
IsEmail(s) ==
    \E k \in 2..(Len(s) - 1) :
        /\ s[k] = "@"
        /\ \A i \in 1..Len(s) : i # k => s[i] # "@"
        /\ s[1] # "." /\ s[k - 1] # "."
        /\ \A i \in 1..(k - 1) :
               s[i] \in Letras \cup Digits \cup {"_", "'", "+", "-", "."}
        /\ \A i \in (k + 1)..Len(s) : s[i] \in Letras \cup Digits \cup {"-", "."}
        /\ s[k + 1] \in Letras \cup Digits
        /\ \E j \in (k + 2)..(Len(s) - 2) :
               /\ s[j] = "."
               /\ \A i \in (j + 1)..Len(s) : s[i] \in Letras
        /\ \A i \in (k + 1)..(Len(s) - 1) : ~(s[i] = "." /\ s[i + 1] = ".")

\* a form value without the optional field: undefined
Ausente == <<"UNDEFINED">>

\* the schema with correo: z.string().email() alone
PacienteErrorsCorreoEstricto(f, hoy) ==
    {n \in {"dni"} : Len(f.dni) < DniLen \/ Len(f.dni) > DniLen}
    \cup {n \in {"nombre"} : Len(f.nombre) < NombreMin \/ Len(f.nombre) > NombreMax}
    \cup {n \in {"apellido"} :
              Len(f.apellido) < NombreMin \/ Len(f.apellido) > NombreMax}
    \cup {n \in {"fecha_nacimiento"} : ~validarFechaFormato(f.fecha_nacimiento, hoy)}
    \cup {n \in {"sexo"} : f.sexo \notin Sexos}
    \cup {n \in {"telefono"} :
              Len(f.telefono) < TelefonoLen \/ Len(f.telefono) > TelefonoLen}
    \cup {n \in {"correo"} : ~IsEmail(f.correo)}

\* the fields of PacienteSchema that refuse the value f holds
PacienteErrors(f, hoy) ==
    {n \in {"dni"} : Len(f.dni) < DniLen \/ Len(f.dni) > DniLen}
    \cup {n \in {"nombre"} : Len(f.nombre) < NombreMin \/ Len(f.nombre) > NombreMax}
    \cup {n \in {"apellido"} :
              Len(f.apellido) < NombreMin \/ Len(f.apellido) > NombreMax}
    \cup {n \in {"fecha_nacimiento"} : ~validarFechaFormato(f.fecha_nacimiento, hoy)}
    \cup {n \in {"sexo"} : f.sexo \notin Sexos}
    \cup {n \in {"telefono"} :
              Len(f.telefono) < TelefonoLen \/ Len(f.telefono) > TelefonoLen}
    \cup {n \in {"correo"} :
              ~(f.correo = Ausente \/ IsEmail(f.correo) \/ f.correo = <<>>)}

\* text.replace(/\D/g, '')
SoloDigitos(s) == SelectSeq(s, LAMBDA c : c \in Digits)

\* String.prototype.slice(a, b) for 0 <= a <= b
Slice(s, a, b) == SubSeq(s, a + 1, IF b < Len(s) THEN b ELSE Len(s))

\* a mask that writes each slash as soon as the pair before it is complete
formatDateInputBarraFinal(text) ==
    LET limited == Slice(SoloDigitos(text), 0, 8)
    IN  IF Len(limited) >= 4
        THEN Slice(limited, 0, 2) \o <<"/">> \o Slice(limited, 2, 4)
                 \o <<"/">> \o Slice(limited, 4, 8)
        ELSE IF Len(limited) >= 2
        THEN Slice(limited, 0, 2) \o <<"/">> \o Slice(limited, 2, Len(limited))
        ELSE limited

formatDateInput(text) ==
    LET limited == Slice(SoloDigitos(text), 0, 8)
    IN  IF Len(limited) >= 2
        THEN IF Len(limited) >= 4
             THEN IF Len(limited) >= 5
                  THEN Slice(limited, 0, 2) \o <<"/">> \o Slice(limited, 2, 4)
                           \o <<"/">> \o Slice(limited, 4, 8)
                  ELSE Slice(limited, 0, 2) \o <<"/">> \o Slice(limited, 2, 4)
             ELSE IF Len(limited) > 2
                  THEN Slice(limited, 0, 2) \o <<"/">> \o Slice(limited, 2, Len(limited))
                  ELSE Slice(limited, 0, 2)
        ELSE limited

\* String.prototype.padStart(2, '0')
PadStart2(s) == IF Len(s) >= 2 THEN s ELSE IF Len(s) = 1 THEN <<"0">> \o s ELSE <<"0", "0">>

Undefined == <<"u", "n", "d", "e", "f", "i", "n", "e", "d">>

\* element i (1-based) of a destructured array, as a template string prints it
Part(p, i) == IF i <= Len(p) THEN p[i] ELSE Undefined

\* a conversion that keeps day and month where they were
convertirFechaSinInvertir(fecha) ==
    LET p == Split(fecha, "/")
    IN  Part(p, 3) \o <<"-">> \o PadStart2(Part(p, 1)) \o <<"-">> \o PadStart2(Part(p, 2))

\* DD/MM/YYYY to YYYY-MM-DD; only called on a validated date
convertirFechaAISO(fecha) ==
    LET p == Split(fecha, "/")
    IN  Part(p, 3) \o <<"-">> \o PadStart2(Part(p, 2)) \o <<"-">> \o PadStart2(Part(p, 1))

\* YYYY-MM-DD to DD/MM/YYYY, as loadPacienteData does
FechaFormateada(fechaISO) ==
    LET p == Split(fechaISO, "-")
    IN  Part(p, 3) \o <<"/">> \o Part(p, 2) \o <<"/">> \o Part(p, 1)

\* value || ''
OrEmpty(s) == IF s = <<Null>> THEN <<>> ELSE s

PacIsEditMode == ~Falsy(params.id)

PacDefaultValues ==
    [dni |-> <<>>, nombre |-> <<>>, apellido |-> <<>>, fecha_nacimiento |-> <<>>,
     sexo |-> "M", telefono |-> <<>>, correo |-> <<>>]

InitPacForm ==
    /\ now = Hoy /\ arg = <<>> /\ ret = <<>>
    /\ screen = "PacienteForm"
    /\ params \in {[id |-> i, pacienteId |-> Null, historiaId |-> Null] : i \in RouteIds}
    /\ mounted = TRUE /\ focused = FALSE /\ nOps = 0
    /\ loading = FALSE /\ loadingData = FALSE /\ loadingHistorias = FALSE
    /\ refreshing = FALSE /\ error = Null
    /\ paciente = <<>> /\ historias = <<>>
    /\ patients = <<>> /\ filteredPatients = <<>> /\ searchQuery = <<>>
    /\ effectPending = FALSE
    /\ form = PacDefaultValues /\ submitted = FALSE /\ initialEstado = TRUE
    /\ historia = <<>>
    /\ tasks = {} /\ openAlerts = <<>>

\* the mount effect: loadPacienteData up to its await, in edit mode
PacMount ==
    /\ screen = "PacienteForm"
    /\ mounted /\ ~focused /\ nOps = 0
    /\ focused' = TRUE
    /\ IF PacIsEditMode /\ ~Falsy(params.id)
       THEN /\ loadingData' = TRUE
            /\ nOps' = nOps + 1
            /\ tasks' = tasks \cup
                   {Task(nOps + 1, "loadPacienteData", "_getPaciente", params.id, NoData)}
       ELSE UNCHANGED <<loadingData, nOps, tasks>>
    /\ UNCHANGED <<fnVars, screen, params, mounted, loading, loadingHistorias,
                   refreshing, error, dataVars, listVars, formVars, openAlerts>>

\* loadPacienteData resumes after await _getPaciente(pacienteId)
PacAfterLoad ==
    \E t \in tasks :
        /\ t.op = "loadPacienteData" /\ ~Pending(t)
        /\ IF t.reply = "ok"
           THEN /\ form' = IF t.rows = <<>> THEN form
                            ELSE LET r == t.rows[1]
                                 IN  [dni |-> r.dni, nombre |-> r.nombre,
                                      apellido |-> r.apellido,
                                      fecha_nacimiento |->
                                          FechaFormateada(r.fecha_nacimiento),
                                      sexo |-> r.sexo, telefono |-> r.telefono,
                                      correo |-> OrEmpty(r.correo)]
                /\ UNCHANGED openAlerts
           ELSE /\ openAlerts' = Append(openAlerts,
                       Alert("No se pudo cargar la informacion del paciente", TRUE))
                /\ UNCHANGED form
        /\ loadingData' = FALSE
        /\ tasks' = tasks \ {t}
        /\ UNCHANGED <<fnVars, navVars, nOps, loading, loadingHistorias, refreshing,
                       error, dataVars, listVars, submitted, initialEstado, historia>>

\* the form, not the loading view, is on screen and no alert covers it
PacFormVisible ==
    /\ screen = "PacienteForm"
    /\ mounted /\ focused /\ openAlerts = <<>>
    /\ ~loadingData

DniInputs ==
    {<<>>, <<"1", "2", "3", "4", "5", "6", "7", "8">>,
     <<"1", "2", "3", "4", "5", "6", "7", " ">>}

NombreInputs == {<<>>, <<"A", "n", "a">>}

ApellidoInputs == {<<>>, <<"P", "a", "z">>}

\* what the date TextInput reports before formatDateInput rewrites it
FechaTexts == {<<>>, <<"1", "5", "0", "3", "1", "9", "9", "0">>}

TelefonoInputs == {<<>>, <<"9", "8", "7", "6", "5", "4", "3", "2", "1">>}

CorreoInputs ==
    {<<>>, <<"n", "o", "t", "-", "a", "n", "-", "e", "m", "a", "i", "l">>}

\* onChangeText of the text inputs, and handleSexoSelect
PacSetField ==
    /\ PacFormVisible
    /\ \/ \E v \in DniInputs : form' = [form EXCEPT !.dni = v]
       \/ \E v \in NombreInputs : form' = [form EXCEPT !.nombre = v]
       \/ \E v \in ApellidoInputs : form' = [form EXCEPT !.apellido = v]
       \/ \E v \in FechaTexts :
              form' = [form EXCEPT !.fecha_nacimiento = formatDateInput(v)]
       \/ \E v \in Sexos : form' = [form EXCEPT !.sexo = v]
       \/ \E v \in TelefonoInputs : form' = [form EXCEPT !.telefono = v]
       \/ \E v \in CorreoInputs : form' = [form EXCEPT !.correo = v]
    /\ form' # form
    /\ UNCHANGED <<fnVars, navVars, nOps, flagVars, dataVars, listVars, submitted,
                   initialEstado, historia, tasks, openAlerts>>

\* the resolver's verdict on the field values
PacienteSchemaOk(f, hoy) == PacienteErrors(f, hoy) = {}

\* onPress={handleSubmit(onSubmit)}: validation, then onSubmit up to
\* await supabase.auth.getUser()
PacTapSubmit ==
    /\ PacFormVisible
    /\ ~loading
    /\ submitted' = TRUE
    /\ IF PacienteSchemaOk(form, now)
       THEN /\ nOps < MaxOps
            /\ nOps' = nOps + 1
            /\ loading' = TRUE
            /\ error' = Null
            /\ tasks' = tasks \cup
                   {Task(nOps + 1, "onSubmitPaciente", "getUser", Null, form)}
       ELSE UNCHANGED <<nOps, loading, error, tasks>>
    /\ UNCHANGED <<fnVars, navVars, loadingData, loadingHistorias, refreshing,
                   dataVars, listVars, form, initialEstado, historia, openAlerts>>

\* a row built without the user
PacienteDataSinUsuario(d, user, idPaciente) ==
    [id_paciente |-> idPaciente,
     dni |-> Trim(d.dni), nombre |-> Trim(d.nombre), apellido |-> Trim(d.apellido),
     fecha_nacimiento |-> convertirFechaAISO(d.fecha_nacimiento),
     sexo |-> d.sexo, telefono |-> Trim(d.telefono), correo |-> Trim(d.correo),
     id_usuario |-> Null]

\* the row onSubmit builds from the validated values and the user
PacienteData(d, user, idPaciente) ==
    [id_paciente |-> idPaciente,
     dni |-> Trim(d.dni), nombre |-> Trim(d.nombre), apellido |-> Trim(d.apellido),
     fecha_nacimiento |-> convertirFechaAISO(d.fecha_nacimiento),
     sexo |-> d.sexo, telefono |-> Trim(d.telefono), correo |-> Trim(d.correo),
     id_usuario |-> user.id]

\* onSubmit resumes after getUser: the throw, or the next await
PacAfterGetUser ==
    \E t \in tasks :
        /\ t.op = "onSubmitPaciente" /\ t.at = "getUser" /\ ~Pending(t)
        /\ IF t.rows = <<>>
           THEN /\ error' = "Usuario no autenticado"
                /\ openAlerts' = Append(openAlerts,
                       Alert("No se pudo guardar el paciente.", FALSE))
                /\ loading' = FALSE
                /\ tasks' = tasks \ {t}
           ELSE /\ tasks' = (tasks \ {t}) \cup
                       {IF PacIsEditMode /\ ~Falsy(params.id)
                        THEN TaskBody(t.id, t.op, "_updatePaciente",
                                 PacienteData(t.data, t.rows[1], params.id), t.data)
                        ELSE TaskBody(t.id, t.op, "_createPaciente",
                                 PacienteData(t.data, t.rows[1], Null), t.data)}
                /\ UNCHANGED <<error, openAlerts, loading>>
        /\ UNCHANGED <<fnVars, navVars, nOps, loadingData, loadingHistorias,
                       refreshing, dataVars, listVars, formVars>>

\* onSubmit resumes after await _updatePaciente / _createPaciente
PacAfterSave ==
    \E t \in tasks :
        /\ t.op = "onSubmitPaciente" /\ t.at \in {"_updatePaciente", "_createPaciente"}
        /\ ~Pending(t)
        /\ IF t.reply = "ok"
           THEN /\ openAlerts' = Append(openAlerts, Alert("Exito", TRUE))
                /\ UNCHANGED error
           ELSE /\ error' = ErrorMessage(t, "Error al guardar paciente")
                /\ openAlerts' = Append(openAlerts,
                       Alert("No se pudo guardar el paciente.", FALSE))
        /\ loading' = FALSE
        /\ tasks' = tasks \ {t}
        /\ UNCHANGED <<fnVars, navVars, nOps, loadingData, loadingHistorias,
                       refreshing, dataVars, listVars, formVars>>

(************************** HistoriaClinicaFormScreen **********************)

DiagnosticoMin == 5

DiagnosticoMax == 500

TextoMax == 1000

Rep(c, n) == [i \in 1..n |-> c]

\* the schema without the lower bound on diagnostico
HistoriaErrorsSinMin(f) ==
    {n \in {"diagnostico"} : Len(f.diagnostico) > DiagnosticoMax}
    \cup {n \in {"tratamiento"} : Len(f.tratamiento) > TextoMax}
    \cup {n \in {"observaciones"} : Len(f.observaciones) > TextoMax}

\* the fields of HistoriaClinicaSchema that refuse the value f holds
HistoriaErrors(f) ==
    {n \in {"diagnostico"} :
         Len(f.diagnostico) < DiagnosticoMin \/ Len(f.diagnostico) > DiagnosticoMax}
    \cup {n \in {"tratamiento"} : Len(f.tratamiento) > TextoMax}
    \cup {n \in {"observaciones"} : Len(f.observaciones) > TextoMax}
    \cup {n \in {"estado"} : f.estado \notin BOOLEAN}

HistoriaSchemaOk(f) == HistoriaErrors(f) = {}

HistIsEditMode == ~Falsy(params.historiaId)

HistDefaultValues ==
    [diagnostico |-> <<>>, tratamiento |-> <<>>, observaciones |-> <<>>,
     estado |-> TRUE]

InitHistForm ==
    /\ now = Hoy /\ arg = <<>> /\ ret = <<>>
    /\ screen = "HistoriaForm"
    /\ params \in {[id |-> Null, pacienteId |-> i, historiaId |-> Null] :
                      i \in RouteIds}
                 \cup {[id |-> Null, pacienteId |-> "id-1", historiaId |-> j] :
                          j \in RouteIds}
    /\ mounted = TRUE /\ focused = FALSE /\ nOps = 0
    /\ loading = FALSE /\ loadingData = FALSE /\ loadingHistorias = FALSE
    /\ refreshing = FALSE /\ error = Null
    /\ paciente = <<>> /\ historias = <<>>
    /\ patients = <<>> /\ filteredPatients = <<>> /\ searchQuery = <<>>
    /\ effectPending = FALSE
    /\ form = HistDefaultValues /\ submitted = FALSE /\ initialEstado = TRUE
    /\ historia = <<>>
    /\ tasks = {} /\ openAlerts = <<>>

\* the mount effect: loadHistoriaData up to its await, in edit mode
HistMount ==
    /\ screen = "HistoriaForm"
    /\ mounted /\ ~focused /\ nOps = 0
    /\ focused' = TRUE
    /\ IF HistIsEditMode /\ ~Falsy(params.historiaId)
       THEN /\ loadingData' = TRUE
            /\ nOps' = nOps + 1
            /\ tasks' = tasks \cup
                   {Task(nOps + 1, "loadHistoriaData", "_getHistoriaById",
                         params.historiaId, NoData)}
       ELSE UNCHANGED <<loadingData, nOps, tasks>>
    /\ UNCHANGED <<fnVars, screen, params, mounted, loading, loadingHistorias,
                   refreshing, error, dataVars, listVars, formVars, openAlerts>>

\* loadHistoriaData resumes after await _getHistoriaById(historiaId)
HistAfterLoad ==
    \E t \in tasks :
        /\ t.op = "loadHistoriaData" /\ ~Pending(t)
        /\ IF t.reply = "ok"
           THEN /\ historia' = t.rows
                /\ form' = IF t.rows = <<>> THEN form
                            ELSE LET h == t.rows[1]
                                 IN  [diagnostico |-> h.diagnostico,
                                      tratamiento |-> OrEmpty(h.tratamiento),
                                      observaciones |-> OrEmpty(h.observaciones),
                                      estado |-> h.estado]
                /\ initialEstado' = IF t.rows = <<>> THEN initialEstado
                                     ELSE t.rows[1].estado
                /\ UNCHANGED openAlerts
           ELSE /\ openAlerts' = Append(openAlerts,
                       Alert("No se pudo cargar la informacion de la historia clinica",
                             TRUE))
                /\ UNCHANGED <<form, initialEstado, historia>>
        /\ loadingData' = FALSE
        /\ tasks' = tasks \ {t}
        /\ UNCHANGED <<fnVars, navVars, nOps, loading, loadingHistorias, refreshing,
                       error, dataVars, listVars, submitted>>

\* the form is on screen: neither of the two "ID no valido" views, nor the
\* loading view, and no alert covers it
HistFormVisible ==
    /\ screen = "HistoriaForm"
    /\ mounted /\ focused /\ openAlerts = <<>>
    /\ ~(HistIsEditMode /\ IdNoValido(params.historiaId))
    /\ ~(~HistIsEditMode /\ IdNoValido(params.pacienteId))
    /\ ~loadingData

\* editable={!isEditMode || initialEstado}
HistEditable == ~HistIsEditMode \/ initialEstado

\* a submit button that only waits for the request in flight
HistSubmitDisabledSoloLoading == loading

\* disabled={loading || (isEditMode && !initialEstado && !estadoValue)}
HistSubmitDisabled == loading \/ (HistIsEditMode /\ ~initialEstado /\ ~form.estado)

DiagnosticoInputs ==
    {<<>>, <<"a", "b", "c">>, <<"a", "b", "c", " ", " ">>,
     Rep("x", DiagnosticoMax), Rep("x", DiagnosticoMax + 1)}

TratamientoInputs ==
    {<<>>, <<" ", " ">>, Rep("t", TextoMax), Rep("t", TextoMax + 1)}

ObservacionesInputs == {<<>>, Rep("o", TextoMax + 1)}

\* onChangeText of the three text areas, and the estado switch
HistSetField ==
    /\ HistFormVisible
    /\ \/ /\ HistEditable
          /\ \E v \in DiagnosticoInputs : form' = [form EXCEPT !.diagnostico = v]
       \/ /\ HistEditable
          /\ \E v \in TratamientoInputs : form' = [form EXCEPT !.tratamiento = v]
       \/ /\ HistEditable
          /\ \E v \in ObservacionesInputs : form' = [form EXCEPT !.observaciones = v]
       \/ form' = [form EXCEPT !.estado = ~form.estado]
    /\ form' # form
    /\ UNCHANGED <<fnVars, navVars, nOps, flagVars, dataVars, listVars, submitted,
                   initialEstado, historia, tasks, openAlerts>>

\* onPress={handleSubmit(onSubmit)}: validation, then onSubmit up to
\* await supabase.auth.getUser()
HistTapSubmit ==
    /\ HistFormVisible
    /\ ~HistSubmitDisabled
    /\ submitted' = TRUE
    /\ IF HistoriaSchemaOk(form)
       THEN IF ~HistIsEditMode /\ IdNoValido(params.pacienteId)
            THEN /\ openAlerts' = Append(openAlerts,
                        Alert("ID de paciente no valido", FALSE))
                 /\ UNCHANGED <<nOps, loading, error, tasks>>
            ELSE /\ nOps < MaxOps
                 /\ nOps' = nOps + 1
                 /\ loading' = TRUE
                 /\ error' = Null
                 /\ tasks' = tasks \cup
                        {Task(nOps + 1, "onSubmitHistoria", "getUser", Null, form)}
                 /\ UNCHANGED openAlerts
       ELSE UNCHANGED <<nOps, loading, error, tasks, openAlerts>>
    /\ UNCHANGED <<fnVars, navVars, loadingData, loadingHistorias, refreshing,
                   dataVars, listVars, form, initialEstado, historia>>

\* value?.trim() || null
TrimOrNull(s) == IF Trim(s) = <<>> THEN <<Null>> ELSE Trim(s)

\* the row onSubmit builds; fecha_registro (today's UTC date) is left out
HistoriaData(d, user, idHistoria, idPaciente) ==
    [id_historia |-> idHistoria, id_paciente |-> idPaciente,
     id_usuario |-> IF idHistoria = Null THEN user.id ELSE Null,
     diagnostico |-> Trim(d.diagnostico),
     tratamiento |-> TrimOrNull(d.tratamiento),
     observaciones |-> TrimOrNull(d.observaciones),
     estado |-> d.estado]

\* onSubmit resumes after getUser: the throw, or the next await
HistAfterGetUser ==
    \E t \in tasks :
        /\ t.op = "onSubmitHistoria" /\ t.at = "getUser" /\ ~Pending(t)
        /\ IF t.rows = <<>>
           THEN /\ error' = "Usuario no autenticado"
                /\ openAlerts' = Append(openAlerts,
                       Alert("No se pudo guardar la historia clinica.", FALSE))
                /\ loading' = FALSE
                /\ tasks' = tasks \ {t}
           ELSE /\ tasks' = (tasks \ {t}) \cup
                       {IF HistIsEditMode /\ ~Falsy(params.historiaId)
                        THEN TaskBody(t.id, t.op, "_updateHistoria",
                                 HistoriaData(t.data, t.rows[1], params.historiaId, Null),
                                 t.data)
                        ELSE TaskBody(t.id, t.op, "_createHistoria",
                                 HistoriaData(t.data, t.rows[1], Null, params.pacienteId),
                                 t.data)}
                /\ UNCHANGED <<error, openAlerts, loading>>
        /\ UNCHANGED <<fnVars, navVars, nOps, loadingData, loadingHistorias,
                       refreshing, dataVars, listVars, formVars>>

\* onSubmit resumes after await _updateHistoria / _createHistoria
HistAfterSave ==
    \E t \in tasks :
        /\ t.op = "onSubmitHistoria" /\ t.at \in {"_updateHistoria", "_createHistoria"}
        /\ ~Pending(t)
        /\ IF t.reply = "ok"
           THEN /\ openAlerts' = Append(openAlerts, Alert("Exito", TRUE))
                /\ UNCHANGED error
           ELSE /\ error' = ErrorMessage(t, "Error al guardar historia clinica")
                /\ openAlerts' = Append(openAlerts,
                       Alert("No se pudo guardar la historia clinica.", FALSE))
        /\ loading' = FALSE
        /\ tasks' = tasks \ {t}
        /\ UNCHANGED <<fnVars, navVars, nOps, loadingData, loadingHistorias,
                       refreshing, dataVars, listVars, formVars>>

(************************** Signup *****************************************)

NameMin == 4

PasswordMin == 6

\* SignupSchema: name of at least 4 characters, an email, a password of at
\* least 6 (a field never typed in is undefined, which fails like '')
SignUpSchemaOk(d) ==
    /\ Len(d.name) >= NameMin
    /\ IsEmail(d.email)
    /\ Len(d.password) >= PasswordMin

SignUpNames == {<<>>, <<"A", "n", "a">>, <<"A", "n", "a", " ", "P">>}

SignUpEmails == {<<>>, <<"a", "@", "b", ".", "c", "o">>}

SignUpPasswords == {<<>>, <<"1", "2", "3", "4", "5">>, <<"1", "2", "3", "4", "5", "6">>}

\* the screen as mounted: useState(false), useState(null), an untouched form
InitSignUp ==
    /\ now = Hoy /\ arg = <<>> /\ ret = <<>>
    /\ screen = "Signup"
    /\ params = [id |-> Null, pacienteId |-> Null, historiaId |-> Null]
    /\ mounted = TRUE /\ focused = TRUE /\ nOps = 0
    /\ loading = FALSE /\ loadingData = FALSE /\ loadingHistorias = FALSE
    /\ refreshing = FALSE /\ error = Null
    /\ paciente = <<>> /\ historias = <<>>
    /\ patients = <<>> /\ filteredPatients = <<>> /\ searchQuery = <<>>
    /\ effectPending = FALSE
    /\ form = [name |-> <<>>, email |-> <<>>, password |-> <<>>]
    /\ submitted = FALSE /\ initialEstado = TRUE
    /\ historia = <<>>
    /\ tasks = {} /\ openAlerts = <<>>

\* onChangeText of one of the three inputs
SignUpSetField ==
    /\ screen = "Signup"
    /\ \/ \E v \in SignUpNames : v # form.name /\ form' = [form EXCEPT !.name = v]
       \/ \E v \in SignUpEmails : v # form.email /\ form' = [form EXCEPT !.email = v]
       \/ \E v \in SignUpPasswords :
              v # form.password /\ form' = [form EXCEPT !.password = v]
    /\ UNCHANGED <<fnVars, navVars, nOps, flagVars, dataVars, listVars, submitted,
                   initialEstado, historia, tasks, openAlerts>>

\* the button (disabled while loading): handleSubmit validates, then onSubmit
\* runs up to await supabase.auth.signUp(...)
SignUpTapSubmit ==
    /\ screen = "Signup"
    /\ ~loading
    /\ submitted' = TRUE
    /\ IF SignUpSchemaOk(form)
       THEN /\ nOps < MaxOps
            /\ nOps' = nOps + 1
            /\ loading' = TRUE
            /\ error' = Null
            /\ tasks' = tasks \cup {Task(nOps + 1, "onSubmit", "signUp", Null, form)}
       ELSE UNCHANGED <<nOps, loading, error, tasks>>
    /\ UNCHANGED <<fnVars, navVars, loadingData, loadingHistorias, refreshing,
                   dataVars, listVars, form, initialEstado, historia, openAlerts>>

\* the auth service answers: no error, an AuthError, or a rejection with
\* something that is no Error
SignUpReply ==
    \E t \in tasks :
        /\ screen = "Signup" /\ Pending(t)
        /\ \E r \in {"ok", "error"} : \E i \in BOOLEAN :
               /\ r = "ok" => ~i
               /\ tasks' = (tasks \ {t}) \cup {[t EXCEPT !.reply = r, !.inst = i]}
        /\ UNCHANGED <<fnVars, navVars, nOps, flagVars, dataVars, listVars,
                       formVars, openAlerts>>

\* error instanceof Error ? error.message : String(error)
SignUpErrorMessage(t) == IF t.inst THEN "backend message" ELSE "[object Object]"

\* an onSubmit that goes on to sign in whatever signUp returned
SignUpAfterSignUpSiempre ==
    \E t \in tasks :
        /\ t.op = "onSubmit" /\ t.at = "signUp" /\ ~Pending(t)
        /\ tasks' = (tasks \ {t}) \cup
                        {Task(t.id, t.op, "signInWithPassword", Null, t.data)}
        /\ UNCHANGED <<loading, error>>
        /\ UNCHANGED <<fnVars, navVars, nOps, loadingData, loadingHistorias,
                       refreshing, dataVars, listVars, formVars, openAlerts>>

\* onSubmit resumes after await signUp: the throw, or the next await
SignUpAfterSignUp ==
    \E t \in tasks :
        /\ t.op = "onSubmit" /\ t.at = "signUp" /\ ~Pending(t)
        /\ IF t.reply = "error"
           THEN /\ error' = SignUpErrorMessage(t)
                /\ loading' = FALSE
                /\ tasks' = tasks \ {t}
           ELSE /\ tasks' = (tasks \ {t}) \cup
                               {Task(t.id, t.op, "signInWithPassword", Null, t.data)}
                /\ UNCHANGED <<loading, error>>
        /\ UNCHANGED <<fnVars, navVars, nOps, loadingData, loadingHistorias,
                       refreshing, dataVars, listVars, formVars, openAlerts>>

\* onSubmit resumes after await signInWithPassword, then runs finally
SignUpAfterSignIn ==
    \E t \in tasks :
        /\ t.op = "onSubmit" /\ t.at = "signInWithPassword" /\ ~Pending(t)
        /\ error' = IF t.reply = "error" THEN SignUpErrorMessage(t) ELSE error
        /\ loading' = FALSE
        /\ tasks' = tasks \ {t}
        /\ UNCHANGED <<fnVars, navVars, nOps, loadingData, loadingHistorias,
                       refreshing, dataVars, listVars, formVars, openAlerts>>

NextSignUp ==
    \/ SignUpSetField \/ SignUpTapSubmit \/ SignUpReply
    \/ SignUpAfterSignUp \/ SignUpAfterSignIn

SpecSignUp == InitSignUp /\ [][NextSignUp]_vars

(************************** calculateAge and formatDate ********************)

\* a date-only string YYYY-MM-DD
EsFechaISO(s) ==
    /\ Len(s) = 10 /\ s[5] = "-" /\ s[8] = "-"
    /\ AllDigits(SubSeq(s, 1, 4)) /\ AllDigits(SubSeq(s, 6, 7))
    /\ AllDigits(SubSeq(s, 9, 10))

\* new Date('YYYY-MM-DD'): midnight of that day in UTC
ParseFechaISO(s) ==
    [year |-> Number(SubSeq(s, 1, 4)), month |-> Number(SubSeq(s, 6, 7)) - 1,
     day |-> Number(SubSeq(s, 9, 10))]

\* new Date(s) is a date, for the strings that are read here
EsFechaParseable(s) ==
    /\ EsFechaISO(s)
    /\ ParseFechaISO(s).month \in 0..11
    /\ ParseFechaISO(s).day >= 1
    /\ ParseFechaISO(s).day <= DiasEnMes(ParseFechaISO(s).year, ParseFechaISO(s).month)

DiaAnterior(d) ==
    IF d.day > 1 THEN [d EXCEPT !.day = d.day - 1]
    ELSE IF d.month > 0
    THEN [year |-> d.year, month |-> d.month - 1,
          day |-> DiasEnMes(d.year, d.month - 1)]
    ELSE [year |-> d.year - 1, month |-> 11, day |-> 31]

\* getFullYear / getMonth / getDate of UTC midnight of day d, read in the
\* device's time zone, tz hours from UTC
EnZona(d, tz) == IF tz < 0 THEN DiaAnterior(d) ELSE d

\* calculateAge of the patient detail screen; today is the local day
calculateAge(birthDate, today, tz) ==
    LET birth == EnZona(ParseFechaISO(birthDate), tz)
        age == today.year - birth.year
        monthDiff == today.month - birth.month
    IN  IF monthDiff < 0 \/ (monthDiff = 0 /\ today.day < birth.day)
        THEN age - 1 ELSE age

\* calculateAge of the patient list screen
calculateAgeLista(birthDate, today, tz) ==
    LET birth == EnZona(ParseFechaISO(birthDate), tz)
        age == today.year - birth.year
        monthDiff == today.month - birth.month
    IN  IF monthDiff < 0 \/ (monthDiff = 0 /\ today.day < birth.day)
        THEN age - 1 ELSE age

\* the device's offset from UTC in hours: Lima, London in winter, Madrid
\* in summer
Zonas == {-5, 0, 2}

Nacimientos ==
    {FechaISO(d, m + 1, y) : y \in {1999, 2000}, m \in {0, 1, 5, 11}, d \in 1..31}

Todays ==
    {[year |-> y, month |-> m, day |-> d] :
        y \in {2000, 2024}, m \in {0, 1, 5, 11}, d \in {1, 14, 15, 28}}

InitEdad ==
    /\ now \in Todays
    /\ arg \in {<<[birthDate |-> b, tz |-> z]>> : b \in Nacimientos, z \in Zonas}
    /\ EsFechaParseable(arg[1].birthDate)
    /\ DateLeqNow(ParseFechaISO(arg[1].birthDate), now)
    /\ ret = <<>>
    /\ NoScreen

EvalEdad ==
    /\ ret = <<>>
    /\ ret' = <<[detail |-> calculateAge(arg[1].birthDate, now, arg[1].tz),
                 lista |-> calculateAgeLista(arg[1].birthDate, now, arg[1].tz)]>>
    /\ UNCHANGED <<now, arg, screenVars>>

NextEdad == EvalEdad

SpecEdad == InitEdad /\ [][NextEdad]_vars

\* the month names of the es-PE locale
MesesLargos ==
    <<<<"e", "n", "e", "r", "o">>, <<"f", "e", "b", "r", "e", "r", "o">>,
      <<"m", "a", "r", "z", "o">>, <<"a", "b", "r", "i", "l">>,
      <<"m", "a", "y", "o">>, <<"j", "u", "n", "i", "o">>,
      <<"j", "u", "l", "i", "o">>, <<"a", "g", "o", "s", "t", "o">>,
      <<"s", "e", "t", "i", "e", "m", "b", "r", "e">>,
      <<"o", "c", "t", "u", "b", "r", "e">>,
      <<"n", "o", "v", "i", "e", "m", "b", "r", "e">>,
      <<"d", "i", "c", "i", "e", "m", "b", "r", "e">>>>

De == <<" ", "d", "e", " ">>

InvalidDate == <<"I", "n", "v", "a", "l", "i", "d", " ", "D", "a", "t", "e">>

\* toLocaleDateString('es-PE', {day: '2-digit', month: 'long', year: 'numeric'})
\* of a date; of an invalid date it is the text Invalid Date
ToLocaleDateString(d) ==
    Pad2(d.day) \o De \o MesesLargos[d.month + 1] \o De \o Pad4(d.year)

\* formatDate of the patient detail screen: what it returns, and whether it
\* threw; neither new Date nor toLocaleDateString throws
formatDate(dateString, tz) ==
    [threw |-> FALSE,
     value |-> IF EsFechaParseable(dateString)
               THEN ToLocaleDateString(EnZona(ParseFechaISO(dateString), tz))
               ELSE InvalidDate]

\* strings new Date cannot read
NoFechas ==
    {<<>>, <<"h", "o", "y">>, <<"x", "-", "y", "-", "z">>,
     <<"2", "0", "2", "4", "-", "1", "3", "-", "0", "1">>}

InitFormatDate ==
    /\ now = Hoy
    /\ arg \in {<<[dateString |-> f, tz |-> z]>> :
                    f \in {n \in Nacimientos : EsFechaParseable(n)} \cup NoFechas,
                    z \in Zonas}
    /\ ret = <<>>
    /\ NoScreen

EvalFormatDate ==
    /\ ret = <<>>
    /\ ret' = <<formatDate(arg[1].dateString, arg[1].tz)>>
    /\ UNCHANGED <<now, arg, screenVars>>

NextFormatDate == EvalFormatDate

SpecFormatDate == InitFormatDate /\ [][NextFormatDate]_vars

(************************** typing into the date input *********************)

\* the keys pressed so far are in ret[1], the text the input shows in arg
MaxTeclas == 9

\* maxLength={10}
FechaMaxLength == 10

Objetivo == <<"1", "5", "0", "3", "1", "9", "9", "0">>

\* the keys on offer after k digits: the next digit of 15031990, another
\* digit, a key that is not a digit
Teclas(k) == {IF k < Len(Objetivo) THEN Objetivo[k + 1] ELSE "2", "7", "x"}

InitTeclear ==
    /\ now = Hoy
    /\ arg = <<>>
    /\ ret = <<<<>>>>
    /\ NoScreen

\* one more key: onChangeText(text) with the key appended to what is shown
Teclear ==
    /\ Len(ret[1]) < MaxTeclas
    /\ Len(arg) < FechaMaxLength
    /\ \E c \in Teclas(Len(SoloDigitos(ret[1]))) :
           /\ ret' = <<Append(ret[1], c)>>
           /\ arg' = formatDateInput(Append(arg, c))
    /\ UNCHANGED <<now, screenVars>>

NextTeclear == Teclear

SpecTeclear == InitTeclear /\ [][NextTeclear]_vars

(************************** the date conversions on their own **************)

\* a display date to convert for storage, or a stored date to load into the
\* form and convert back at submit
InitConvertir ==
    /\ now = Hoy
    /\ arg \in {<<[stored |-> FALSE, fecha |-> Fecha(d, m, y)]>> :
                    d \in 1..MaxDia, m \in 1..MaxMes, y \in FechaYears}
               \cup {<<[stored |-> TRUE, fecha |-> FechaISO(d, m, y)]>> :
                        d \in 1..MaxDia, m \in 1..MaxMes, y \in FechaYears}
    /\ ret = <<>>
    /\ NoScreen

EvalConvertir ==
    /\ ret = <<>>
    /\ ret' = <<IF arg[1].stored
                THEN convertirFechaAISO(FechaFormateada(arg[1].fecha))
                ELSE convertirFechaAISO(arg[1].fecha)>>
    /\ UNCHANGED <<now, arg, screenVars>>

NextConvertir == EvalConvertir

SpecConvertir == InitConvertir /\ [][NextConvertir]_vars

(************************** PacienteSchema on its own **********************)

SchemaDnis == {Rep("1", 7), Rep("1", 8), Rep("1", 9), <<"a", "b", "c", "d", " ", "f", "g", "h">>}

SchemaNombres == {<<"A">>, <<"A", "l">>, Rep("a", 50), Rep("a", 51)}

SchemaFechas ==
    {<<>>, <<"1", "5", "/", "0", "3", "/", "1", "9", "9", "0">>,
     <<"3", "1", "/", "0", "2", "/", "2", "0", "2", "4">>,
     <<"1", "5", "/", "0", "6", "/", "2", "0", "3", "0">>}

SchemaSexos == {"M", "F", "Otro", "X"}

SchemaTelefonos == {Rep("9", 8), Rep("9", 9), Rep("9", 10)}

SchemaCorreos ==
    {<<>>, Ausente,
     <<"n", "o", "t", "-", "a", "n", "-", "e", "m", "a", "i", "l">>,
     <<"a", "@", "b", ".", "c", "o">>}

InitSchema ==
    /\ now = Hoy
    /\ arg \in {<<[dni |-> d, nombre |-> n, apellido |-> <<"P", "a", "z">>,
                    fecha_nacimiento |-> f, sexo |-> x, telefono |-> t,
                    correo |-> c]>> :
                    d \in SchemaDnis, n \in SchemaNombres, f \in SchemaFechas,
                    x \in SchemaSexos, t \in SchemaTelefonos, c \in SchemaCorreos}
               \cup {<<[dni |-> Rep("1", 8), nombre |-> <<"A", "n", "a">>,
                        apellido |-> a,
                        fecha_nacimiento |-> <<"1", "5", "/", "0", "3", "/", "1", "9", "9", "0">>,
                        sexo |-> "F", telefono |-> Rep("9", 9), correo |-> <<>>]>> :
                        a \in SchemaNombres}
    /\ ret = <<>>
    /\ NoScreen

\* PacienteSchema.safeParse(value).success
EvalSchema ==
    /\ ret = <<>>
    /\ ret' = <<PacienteSchemaOk(arg[1], now)>>
    /\ UNCHANGED <<now, arg, screenVars>>

NextSchema == EvalSchema

SpecSchema == InitSchema /\ [][NextSchema]_vars

(************************** the application ********************************)

Init == InitDetail \/ InitLista \/ InitPacForm \/ InitHistForm

Next ==
    \/ Reply
    \/ PressAlertOK
    \/ GoBack
    \/ Blur
    \/ DetailFocus
    \/ DetailAfterGetPaciente
    \/ DetailAfterGetHistorias
    \/ ListaFocus
    \/ ListaOnRefresh
    \/ ListaAfterGetAll
    \/ ListaSetSearchQuery
    \/ ListaFilterEffect
    \/ PacMount
    \/ PacAfterLoad
    \/ PacSetField
    \/ PacTapSubmit
    \/ PacAfterGetUser
    \/ PacAfterSave
    \/ HistMount
    \/ HistAfterLoad
    \/ HistSetField
    \/ HistTapSubmit
    \/ HistAfterGetUser
    \/ HistAfterSave

Spec == Init /\ [][Next]_vars

(***************************** C3 .. C10 ***********************************)

\* C3: every patient row handed to _createPaciente or _updatePaciente has a
\* dni of exactly 8 digits and a telefono of exactly 9 digits.
C3_PacienteSentWellFormed ==
    \A t \in tasks :
        t.at \in {"_createPaciente", "_updatePaciente"} =>
            /\ Len(t.body.dni) = 8 /\ AllDigits(t.body.dni)
            /\ Len(t.body.telefono) = 9 /\ AllDigits(t.body.telefono)

\* a nullable text is null or at most n characters long
NullOrAtMost(s, n) == s = <<Null>> \/ Len(s) <= n

\* C4: every history row handed to _createHistoria or _updateHistoria has a
\* diagnostico of 5 to 500 characters as sent, and tratamiento and
\* observaciones that are null or at most 1000 characters.
C4_HistoriaSentWellFormed ==
    \A t \in tasks :
        t.at \in {"_createHistoria", "_updateHistoria"} =>
            /\ Len(t.body.diagnostico) >= 5 /\ Len(t.body.diagnostico) <= 500
            /\ NullOrAtMost(t.body.tratamiento, 1000)
            /\ NullOrAtMost(t.body.observaciones, 1000)

\* the date field holds a real date of year 0100 or later, not after today
C5_FechaOk(s, hoy) ==
    /\ FormatoDDMMYYYY(s) /\ DiaExiste(s) /\ ~EsPosterior(s, hoy)
    /\ AnioDe(s) >= 100

\* some field of the form on screen fails its schema constraint
C5_SomeFieldFails ==
    \/ /\ screen = "PacienteForm"
       /\ \/ Len(form.dni) # 8
          \/ Len(form.nombre) < 2 \/ Len(form.nombre) > 50
          \/ Len(form.apellido) < 2 \/ Len(form.apellido) > 50
          \/ ~C5_FechaOk(form.fecha_nacimiento, now)
          \/ form.sexo \notin {"M", "F", "Otro"}
          \/ Len(form.telefono) # 9
          \/ ~(form.correo = <<>> \/ IsEmail(form.correo))
    \/ /\ screen = "HistoriaForm"
       /\ \/ Len(form.diagnostico) < 5 \/ Len(form.diagnostico) > 500
          \/ Len(form.tratamiento) > 1000
          \/ Len(form.observaciones) > 1000

\* C5: while some field of either form fails its constraint, no step starts
\* the submit handler: no getUser request appears (so no create or update
\* follows from it) and loading does not become true.
C5_InvalidFormNotSubmitted ==
    [][C5_SomeFieldFails =>
          /\ ~\E t \in tasks' \ tasks : t.at = "getUser" /\ t.reply = "pending"
          /\ (~loading => ~loading')]_vars

\* submit was tapped on a history form whose diagnostico has 3 characters,
\* and nothing was started
C5_Witness ==
    /\ screen = "HistoriaForm"
    /\ submitted /\ Len(form.diagnostico) = 3
    /\ nOps = 0 /\ tasks = {} /\ ~loading

\* the history form loaded a closed history
C6_LoadedClosed ==
    screen = "HistoriaForm" /\ historia # <<>> /\ ~historia[1].estado

\* C6: once a closed history is loaded, the three text fields keep the loaded
\* values (they are not editable), and every submit handler run and every
\* update request carries estado = true (the button is disabled otherwise).
C6_ClosedHistoryLocked ==
    C6_LoadedClosed =>
        /\ form.diagnostico = historia[1].diagnostico
        /\ form.tratamiento = OrEmpty(historia[1].tratamiento)
        /\ form.observaciones = OrEmpty(historia[1].observaciones)
        /\ \A t \in tasks :
               /\ t.op = "onSubmitHistoria" => t.data.estado
               /\ t.at = "_updateHistoria" => t.body.estado

\* an update request for a history that was closed when loaded is in flight
C6_Witness ==
    /\ C6_LoadedClosed
    /\ \E t \in tasks : t.at = "_updateHistoria" /\ t.body.estado

\* C7: no fetch by identifier is issued with a missing route identifier or
\* with the literal 'undefined' or 'null'.
C7_NoFetchWithBadId ==
    \A t \in tasks :
        t.at \in {"_getPaciente", "_getHistoriasByPaciente", "_getHistoriaById"} =>
            t.arg \notin {Null, "undefined", "null"}

\* C8: in the patient detail screen with a missing or placeholder id, once
\* the focus effect has run the screen has left loading and is in its error
\* state, with exactly one alert, whose button navigates back.
C8_BadIdErrorState ==
    (/\ screen = "PacienteDetail"
     /\ params.id \in {Null, "undefined", "null"}
     /\ nOps = 1 /\ mounted) =>
        /\ ~loading
        /\ error # Null
        /\ Len(openAlerts) = 1 /\ openAlerts[1].back

\* a failed _getPaciente of fetchData is handled in this step
C9_FailureHandled ==
    \E t \in tasks :
        /\ t.op = "fetchData" /\ t.at = "_getPaciente" /\ t.reply = "error"
        /\ t \notin tasks'

\* the screen gains focus in this step
C9_FocusGained == ~focused /\ focused'

\* C9: in the patient detail screen, the step that handles a failed
\* _getPaciente leaves loading false and error set and shows exactly one
\* alert, whose button navigates back; a _getPaciente request is issued
\* only in a step in which the screen gains focus; and the error state
\* lasts until the screen gains focus again.
C9_GetPacienteFailure ==
    [][screen = "PacienteDetail" =>
          /\ C9_FailureHandled =>
                 /\ ~loading' /\ error' # Null
                 /\ Len(openAlerts') = Len(openAlerts) + 1
                 /\ SubSeq(openAlerts', 1, Len(openAlerts)) = openAlerts
                 /\ openAlerts'[Len(openAlerts')].back
          /\ (\E t \in tasks' \ tasks : t.at = "_getPaciente" /\ t.reply = "pending")
                 => C9_FocusGained
          /\ (error # Null /\ ~loading /\ ~C9_FocusGained)
                 => (error' # Null /\ ~loading')]_vars

\* the detail screen after one failed fetch: error state, one alert
C9_Witness ==
    /\ screen = "PacienteDetail"
    /\ nOps = 1 /\ tasks = {}
    /\ error # Null /\ ~loading /\ paciente = <<>>
    /\ Len(openAlerts) = 1 /\ openAlerts[1].back

\* C10: the step that handles a failed read (patient list, patient,
\* histories of a patient, history by id) shows an alert.
C10_ReadFailureAlerts ==
    [][\A t \in tasks :
          (/\ t.reply = "error"
           /\ t.at \in {"_getAllPacientes", "_getPaciente",
                         "_getHistoriasByPaciente", "_getHistoriaById"}
           /\ t \notin tasks') => Len(openAlerts') = Len(openAlerts) + 1]_vars

(***************************** C11 .. C20 **********************************)

\* the save request of a submit failed and its handler resumes in this step
C11_SaveFailureHandled(t) ==
    /\ t.at \in {"_createPaciente", "_updatePaciente",
                  "_createHistoria", "_updateHistoria"}
    /\ t.reply = "error"
    /\ t \notin tasks'

\* C11: the step that handles a failed create or update of a submit leaves
\* every form field as it is, does not navigate (the screen stays mounted
\* and focused as it was, and the one alert it adds has no navigation),
\* and sets loading to false; with the submitted values still in the form
\* the submit button is enabled again.
C11_SaveFailureKeepsForm ==
    [][\A t \in tasks :
          C11_SaveFailureHandled(t) =>
              /\ form' = form
              /\ mounted' = mounted /\ focused' = focused
              /\ Len(openAlerts') = Len(openAlerts) + 1
              /\ ~openAlerts'[Len(openAlerts')].back
              /\ ~loading'
              /\ (screen = "HistoriaForm" /\ form = t.data) => ~HistSubmitDisabled']_vars

\* the patient form after a failed save: the values are still there, the
\* screen is in front, loading is false
C11_Witness ==
    /\ screen = "PacienteForm"
    /\ mounted /\ focused
    /\ error \in {"backend message", "Error al guardar paciente"}
    /\ Len(form.dni) = 8 /\ Len(form.telefono) = 9
    /\ ~loading /\ tasks = {}
    /\ Len(openAlerts) = 1 /\ ~openAlerts[1].back

\* C12: a call of a data-access function that ends because the backend
\* returned an error throws that very error object.
C12_BackendErrorPropagated ==
    (ret # <<>> /\ ret[1].causa # SinError) =>
        (ret[1].kind = "throw" /\ ret[1].err = ret[1].causa)

\* the patient detail screen shows a patient
C13_DisplaysPaciente ==
    screen = "PacienteDetail" /\ ~loading /\ error = Null /\ paciente # <<>>

\* C13: a _getPaciente call for an identifier no row has never resolves, it
\* rejects; and the patient detail screen opened with such an identifier
\* never shows a patient and is in its error state once the fetch is over.
C13_NotFoundIsFailure ==
    /\ \A t \in tasks :
           (t.at = "_getPaciente" /\ ~Existe(t.arg) /\ ~Pending(t)) =>
               t.reply = "error"
    /\ (screen = "PacienteDetail" /\ ~Existe(params.id)) =>
           /\ ~C13_DisplaysPaciente
           /\ (nOps >= 1 /\ tasks = {} /\ ~IdNoValido(params.id)) =>
                  (error # Null /\ ~loading)

\* the detail screen of an identifier no row has, after its fetch
C13_Witness ==
    /\ screen = "PacienteDetail" /\ params.id = "id-2"
    /\ nOps = 1 /\ tasks = {}
    /\ error # Null /\ ~loading /\ paciente = <<>>

\* q occurs in s
C14_Substring(q, s) ==
    \E i \in 1..(Len(s) + 1) : \E j \in (i - 1)..Len(s) : SubSeq(s, i, j) = q

\* q is empty or whitespace only
C14_Blank(q) == \A i \in 1..Len(q) : q[i] \in {" ", "\t", "\n"}

\* the text of a patient the query is looked up in, its parts joined by sep
C14_Text(pt, conDni, sep) ==
    ToLowerCase(pt.nombre \o sep \o pt.apellido
                \o (IF conDni THEN sep \o pt.dni ELSE <<>>))

\* the filtered list is the list of the patients whose text, joined by
\* sep, contains the lower-cased query, in their original order
C14_FilteredBy(conDni, sep) ==
    ret # <<>> =>
        ret[1] = IF C14_Blank(arg[1].searchQuery) THEN arg[1].patients
                 ELSE SelectSeq(arg[1].patients, LAMBDA pt :
                          C14_Substring(ToLowerCase(arg[1].searchQuery),
                                        C14_Text(pt, conDni, sep)))

\* C14 (as stated): filterPatients yields the patients whose lower-cased
\* concatenation of nombre, apellido and dni contains the lower-cased
\* query, in order; a blank query yields the whole list.
C14_Concatenation == C14_FilteredBy(TRUE, <<>>)

\* C14 (amended): filterPatients yields the patients for which the
\* lower-cased query occurs in the lower-cased text "nombre apellido dni",
\* the parts joined by single spaces (in the older list screen "nombre
\* apellido", without the dni), in order; a blank query yields the whole
\* list.
C14_JoinedBySpaces == C14_FilteredBy(arg[1].conDni, <<" ">>)

\* a query with a space in it singled one patient out of two
C14_Witness ==
    /\ ret # <<>> /\ arg[1].conDni
    /\ arg[1].searchQuery = <<"a", "n", "a", " ", "l">>
    /\ Len(arg[1].patients) = 2 /\ Len(ret[1]) = 1

\* C15: PacienteSchema accepts a value exactly when dni has 8 characters,
\* nombre and apellido have 2 to 50 each, fecha_nacimiento satisfies
\* validarFechaFormato, sexo is M, F or Otro, telefono has 9 characters and
\* correo is empty, absent or a valid email.
C15_SchemaAcceptsExactly ==
    ret # <<>> =>
        (ret[1] <=>
            /\ Len(arg[1].dni) = 8
            /\ Len(arg[1].nombre) >= 2 /\ Len(arg[1].nombre) <= 50
            /\ Len(arg[1].apellido) >= 2 /\ Len(arg[1].apellido) <= 50
            /\ validarFechaFormato(arg[1].fecha_nacimiento, now)
            /\ arg[1].sexo \in {"M", "F", "Otro"}
            /\ Len(arg[1].telefono) = 9
            /\ \/ arg[1].correo = <<>>
               \/ arg[1].correo = Ausente
               \/ IsEmail(arg[1].correo))

\* a value with an empty correo was accepted
C15_Witness ==
    /\ ret = <<TRUE>>
    /\ arg[1].correo = <<>> /\ Len(arg[1].nombre) = 50

\* C16: for a display date validarFechaFormato accepts, convertirFechaAISO
\* gives YYYY-MM-DD with the same year, month and day, zero-padded; and a
\* stored YYYY-MM-DD date turned into DD/MM/YYYY as the form loads it and
\* back with convertirFechaAISO is the stored string again.
C16_ConvertirFecha ==
    ret # <<>> =>
        /\ (~arg[1].stored /\ validarFechaFormato(arg[1].fecha, now)) =>
               ret[1] = Pad4(AnioDe(arg[1].fecha)) \o <<"-">>
                          \o Pad2(MesDe(arg[1].fecha)) \o <<"-">>
                          \o Pad2(DiaDe(arg[1].fecha))
        /\ arg[1].stored => ret[1] = arg[1].fecha

\* 15/03/2023 was converted to 2023-03-15
C16_Witness ==
    /\ arg = <<[stored |-> FALSE,
                fecha |-> <<"1", "5", "/", "0", "3", "/", "2", "0", "2", "3">>]>>
    /\ ret = <<<<"2", "0", "2", "3", "-", "0", "3", "-", "1", "5">>>>

\* digits with a slash after the 2nd when there are more than 2 and after
\* the 4th when there are more than 4
C17_Mask(ds) ==
    IF Len(ds) > 4
    THEN SubSeq(ds, 1, 2) \o <<"/">> \o SubSeq(ds, 3, 4) \o <<"/">>
             \o SubSeq(ds, 5, Len(ds))
    ELSE IF Len(ds) > 2
    THEN SubSeq(ds, 1, 2) \o <<"/">> \o SubSeq(ds, 3, Len(ds))
    ELSE ds

\* the first 8 digits of a text
C17_Digits8(s) ==
    LET ds == SelectSeq(s, LAMBDA c : c \in Digits)
    IN  SubSeq(ds, 1, IF Len(ds) < 8 THEN Len(ds) ELSE 8)

\* C17: formatDateInput of the keys pressed is the mask of their first 8
\* digits; the text shown after typing key by key, each key appended to
\* the text shown before, is that same mask; and formatDateInput leaves
\* the text shown unchanged.
C17_LiveMask ==
    /\ formatDateInput(ret[1]) = C17_Mask(C17_Digits8(ret[1]))
    /\ arg = C17_Mask(C17_Digits8(ret[1]))
    /\ formatDateInput(arg) = arg

\* 15031990 was typed and the input shows 15/03/1990
C17_Witness ==
    /\ ret = <<Objetivo>>
    /\ arg = <<"1", "5", "/", "0", "3", "/", "1", "9", "9", "0">>

\* today's month and day come before those of the birth date
C18_BeforeBirthday(b, today) ==
    \/ today.month < b.month
    \/ today.month = b.month /\ today.day < b.day

\* C18: calculateAge is the current year minus the birth year, less one
\* exactly when today's month/day is before the birth month/day; the copies
\* of the list and detail screens agree.
C18_WholeYears ==
    ret # <<>> =>
        LET b == ParseFechaISO(arg[1].birthDate)
        IN  /\ ret[1].detail =
                   now.year - b.year - (IF C18_BeforeBirthday(b, now) THEN 1 ELSE 0)
            /\ ret[1].lista = ret[1].detail

\* C19: formatDate never throws, and returns a string that is not a
\* parseable date unchanged.
C19_MalformedUnchanged ==
    ret # <<>> =>
        /\ ~ret[1].threw
        /\ ~EsFechaParseable(arg[1].dateString) =>
               ret[1].value = arg[1].dateString

\* C20: once the screen has been left, the completion of a request it had
\* in flight shows no alert.
C20_LeftScreenIgnored ==
    [][~mounted => Len(openAlerts') <= Len(openAlerts)]_vars

(***************************** C21 .. C30 **********************************)

\* the data-access requests of the screen that have not been handled yet
C21_InFlight == {t \in tasks : t.at # "getUser"}

\* C21: at most one data-access request of the screen is in flight.
C21_OneRequestAtATime == Cardinality(C21_InFlight) <= 1

\* C22: in the patient detail screen a _getHistoriasByPaciente request
\* appears only in the step in which the _getPaciente request of the same
\* fetch is handled, and only when that request returned a patient.
C22_HistoriasAfterPaciente ==
    [][screen = "PacienteDetail" =>
          \A h \in tasks' \ tasks :
              (h.at = "_getHistoriasByPaciente" /\ Pending(h)) =>
                  \E t \in tasks \ tasks' :
                      /\ t.at = "_getPaciente" /\ t.id = h.id
                      /\ t.reply = "ok" /\ t.rows # <<>>]_vars

\* the histories request is in flight and the patient is already there
C22_Witness ==
    /\ screen = "PacienteDetail"
    /\ paciente # <<>>
    /\ \E h \in tasks : h.at = "_getHistoriasByPaciente" /\ Pending(h)
    /\ ~\E t \in tasks : t.at = "_getPaciente"

\* C23: when the _updateHistoria of three requests reports a failure, the
\* stored row has not been modified by the call.
C23_FailureLeavesRowAlone ==
    (ret # <<>> /\ arg[1].pasos /\ ret[1].kind = "throw") => ~arg[1].tocada

\* the requests of _getAllPacientes a step issues
C24_Issued == {t \in tasks' \ tasks : t.at = "_getAllPacientes" /\ Pending(t)}

\* C24: in the list screen each focus and each pull-to-refresh issues exactly
\* one _getAllPacientes and sets loading; when that request has completed,
\* with rows or with a failure, loading is false, and refreshing is false
\* when it was a pull-to-refresh.
C24_FetchSetsAndClearsLoading ==
    [][screen = "ListaPacientes" =>
          /\ ((~focused /\ focused') \/ (~refreshing /\ refreshing') \/ nOps' # nOps) =>
                 /\ Cardinality(C24_Issued) = 1
                 /\ \A t \in tasks' \ tasks : t \in C24_Issued
                 /\ loading'
          /\ \A t \in tasks \ tasks' :
                 (t.at = "_getAllPacientes" /\ ~Pending(t)) =>
                     /\ ~loading'
                     /\ t.op = "onRefresh" => ~refreshing']_vars

\* a pull-to-refresh is waiting for its rows
C24_Witness ==
    /\ screen = "ListaPacientes" /\ refreshing /\ loading
    /\ \E t \in tasks : t.at = "_getAllPacientes" /\ t.op = "onRefresh"

\* C25: in the list screen, once the pending effect has run,
\* filteredPatients is the filter applied to the current searchQuery and
\* the current patients.
C25_FilteredIsFilterOfCurrent ==
    (screen = "ListaPacientes" /\ ~effectPending) =>
        filteredPatients =
            IF C14_Blank(searchQuery) THEN patients
            ELSE SelectSeq(patients, LAMBDA pt :
                     C14_Substring(ToLowerCase(searchQuery),
                                   C14_Text(pt, TRUE, <<" ">>)))

\* a query that matches no patient has emptied the list on screen
C25_Witness ==
    /\ screen = "ListaPacientes" /\ ~effectPending
    /\ searchQuery = <<"X">> /\ patients # <<>> /\ filteredPatients = <<>>

\* the screens that fetch on focus
C26_FetchScreens == {"PacienteDetail", "ListaPacientes"}

C26_Step ==
    screen \in C26_FetchScreens =>
        /\ ~(loading' /\ error' # Null)
        /\ (error' # Null /\ error' # error) =>
               \/ IdNoValido(params.id) /\ screen = "PacienteDetail"
               \/ \E t \in tasks \ tasks' : ~Pending(t) /\ t.id = nOps
        /\ (\E t \in tasks' \ tasks : t.id > nOps) => (error' = Null)

\* C26: in the detail and list screens loading and a non-null error are
\* never both set, and error is non-null only when a fetch has failed and
\* no later fetch has started: error becomes non-null only by the failure
\* of the most recently issued fetch (or for a route id that is no id), and
\* a fetch that starts clears it.
C26_ErrorOfLatestFetch == [][C26_Step]_vars

\* C27: in the detail and list screens loading is true in every state in
\* which at least one fetch of the screen is in flight.
C27_LoadingWhileInFlight ==
    (screen \in C26_FetchScreens /\ tasks # {}) => loading

\* C28: when two fetches of a screen overlap, the data and error values
\* are those of the most recently issued fetch whatever the order of
\* arrival: a response of an earlier fetch that arrives after the latest
\* fetch has completed changes neither.
C28_LatestFetchWins ==
    [][(/\ screen \in C26_FetchScreens
        /\ \E t \in tasks \ tasks' : ~Pending(t) /\ t.id < nOps
        /\ \A t \in tasks : t.id < nOps)
       => UNCHANGED <<error, paciente, historias, patients>>]_vars

\* the create and update requests of the two forms
C29_Saves == {"_createPaciente", "_updatePaciente", "_createHistoria", "_updateHistoria"}

\* the requests of C29_Saves a step issues
C29_Issued == {t \in tasks' \ tasks : t.at \in C29_Saves /\ Pending(t)}

C29_Step ==
    /\ \A s \in C29_Issued :
           \E g \in tasks \ tasks' :
               /\ g.at = "getUser" /\ g.rows # <<>> /\ g.id = s.id
               /\ s.at # "_updateHistoria" => s.body.id_usuario = g.rows[1].id
    /\ \A g \in tasks \ tasks' :
           (g.at = "getUser" /\ ~Pending(g) /\ g.rows = <<>>) =>
               /\ C29_Issued = {}
               /\ ~loading'
               /\ error' # Null

\* C29: the patient and history forms issue a create or update request
\* only when getUser returned a user, every created patient, updated
\* patient and created history carries that user's id as id_usuario, and
\* when getUser returns no user no request is issued, loading is false and
\* error is set.
C29_SavesCarryUser == [][C29_Step]_vars

\* a create request for a patient carries the id of the signed-in user
C29_Witness ==
    \E t \in tasks : t.at = "_createPaciente" /\ Pending(t)
                      /\ t.body.id_usuario = "u1"

C30_Step ==
    /\ \A s \in tasks' \ tasks :
           (s.at = "signInWithPassword" /\ Pending(s)) =>
               \E u \in tasks \ tasks' :
                   u.at = "signUp" /\ u.reply = "ok" /\ u.id = s.id
    /\ \A u \in tasks \ tasks' :
           /\ (u.at = "signUp" /\ u.reply = "error") =>
                  /\ tasks' = tasks \ {u}
                  /\ error' # Null /\ ~loading'
           /\ (u.at = "signInWithPassword" /\ ~Pending(u)) =>
                  /\ tasks' = tasks \ {u}
                  /\ u.reply = "error" => error' # Null
                  /\ ~loading'

\* C30: in the sign-up screen signInWithPassword is called only after
\* signUp has returned without error; when signUp fails no sign-in is
\* attempted; after either call fails the error message is set; and
\* loading is false when the submit handler finishes.
C30_SignInAfterSignUp == [][C30_Step]_vars

\* signUp went through and the sign-in that follows has failed
C30_Witness ==
    /\ screen = "Signup" /\ loading
    /\ \E t \in tasks : t.at = "signInWithPassword" /\ t.reply = "error"

====
